---- MODULE Spec2Model ----
(***************************************************************************)
(* da-boot: host driver and on-device RPC payload, the framed protocol     *)
(* between them, and the Thumb-2 interceptor of the payload.               *)
(*                                                                         *)
(* One module, several specifications.  Each specification moves one       *)
(* subsystem's variables and leaves the others at their initial value:     *)
(*   Spec       the RPC session: host driver against the device loop       *)
(*   SpecFrame  the framing at byte level: write_data against read_data    *)
(*   SpecDev    the device loop fed with bytes                             *)
(*   SpecHook   the interceptor: init, replace, revert over byte memory    *)
(*   SpecLkHook the payload's hook request over the interceptor            *)
(*   SpecInstall the interceptor's replace over more instruction mixes     *)
(*   SpecBoot   the host's boot flows, step by step                        *)
(*   SpecLegacy the run() method derived for a legacy command structure    *)
(*   SpecPatch  a patch of the patcher applied to a buffer                 *)
(*   SpecDriver the patch driver walking a catalog over an image           *)
(*   SpecFuzzy  the patcher's fuzzy search over decoded instructions        *)
(*   SpecAna    the analyzer's basic blocks of a function                   *)
(*   SpecDa     the DA parser on a file and the accessors of its regions    *)
(*   SpecShake  the host's handshake with the device, call by call          *)
(*   SpecCode   the interceptor or the device loop, as what modifies code   *)
(*   SpecShakeLive  the same with the handshake always taking its next step *)
(***************************************************************************)
EXTENDS Integers, Sequences, FiniteSets, TLC

VARIABLES
    hpc,      \* host: position in the driver
    hres,     \* host: result of the run ([ok, msg, chunk]) once it has ended
    up,       \* host: the upload in progress ([addr, data, rest, i, start])
    dl,       \* host: the download in progress ([addr, len, i, vec, start])
    last,     \* host: the last finished upload/download ([op, ok, ...])
    opsLeft,  \* host: operations the driver may still start
    hread,    \* host: number of responses read in the command phase
    dpc,      \* device: position in main()
    inBrom,   \* device: is_bootrom()
    dmem,     \* device: the memory window Read/Write act on
    h2d,      \* frames in flight, host to device
    d2h,      \* frames in flight, device to host
    reqs,     \* history: request frames the host has emitted after start()
    resps,    \* history: response frames the device has emitted in its loop
    taken,    \* history: number of request frames the device loop has read
    wbuf,     \* framing: Protocol.buf of the writing peer
    rbuf,     \* framing: Protocol.buf of the reading peer (the device's only buf)
    wire,     \* framing: bytes in flight towards the reading peer
    wlog,     \* history: the write_data calls ([typ, v, ok, bytes])
    rlog,     \* history: the read_data calls ([typ, size, n, body, ok, v, ...])
    stream,   \* history: every byte the writing peer put on the transport
    mem,      \* interceptor: memory, byte by byte (code under hook and the heap)
    heap,     \* interceptor: BumpAllocator.ptr
    pool_init,       \* interceptor: POOL has been written by init()
    pool_address,    \* interceptor: POOL.address
    pool_trampoline, \* interceptor: POOL.trampoline ([address, jump_address])
    hops,     \* interceptor: calls made so far
    hlast,    \* history: the last replace/revert call and what it computed
    pre,      \* history: per call site, its bytes before the last install there
    flushes,  \* history: the flush_cache calls of the last device-side handler
    bcfg,     \* boot flow: the command line and the files ([entry, command, mode, ...])
    bpc,      \* boot flow: position of the host in run_brom / run_preloader / ...
    bcrash,   \* boot flow: state.cli.crash
    bidx,     \* boot flow: index of the file the upload loop is at
    bres,     \* boot flow: result of the run ([ok, msg]) once it has ended
    blog,     \* history: the steps the host has made ([step, ok, addr, args])
    lcmd,     \* legacy command: the command structure being run ([name, command, fields])
    lidx,     \* legacy command: index of the field run() is at, 0 for the command byte
    lhalf,    \* legacy command: "tx" before the field's write, "rx" before its read
    lself,    \* legacy command: the structure's field values (self)
    lres,     \* legacy command: what run() returned, [k |-> "running"] before that
    llog,     \* history: the writes and reads run() made on the port ([dir, field, val, ok])
    ppatch,   \* patcher: the patch that is applied
    pbuf,     \* patcher: the buffer (bytes: &mut [u8])
    pinit,    \* history: the buffer before the first application
    phist,    \* history: result and buffer after each application ([res, buf])
    fcode,    \* fuzzy search: what the disassembler gives for the slice, item by item ([m, size])
    fpat,     \* fuzzy search: split_instr, the templates of the pattern
    fidx,     \* fuzzy search: the item that lies at offset
    fn,       \* fuzzy search: n, the number of templates matched in a row
    fstart,   \* fuzzy search: start, <<>> for None
    fres,     \* fuzzy search: what the search returned, [k |-> "running"] before that
    acode,    \* analyzer: self.code, the decoded instructions ([op, cond, target])
    ai,       \* analyzer: i, the index analyze_function is called with
    ares,     \* analyzer: what analyze_function gave ([k, blocks, e, seen]), k = "none" before the call
    dfile,    \* DA parser: the file ([len, header, entries])
    dres,     \* DA parser: what parsing gave ([k, entries, e]), k = "none" before the call
    dacc,     \* DA parser: what the accessors of the regions gave, in call order
    kpc,      \* handshake: position in handshake()
    ki,       \* handshake: index of the byte of HANDSHAKE the loop is at
    kwrong,   \* handshake: the answers other than 0x5f the device gave so far
    kres,     \* handshake: what handshake() returned, [k |-> "running"] before that
    klog      \* history: the calls handshake() made on the port ([op, b, ok])

rpcVars == <<hpc, hres, up, dl, last, opsLeft, hread, dpc, inBrom, dmem,
             h2d, d2h, reqs, resps, taken>>

frameVars == <<wbuf, rbuf, wire, wlog, rlog, stream>>

hookVars == <<mem, heap, pool_init, pool_address, pool_trampoline, hops, hlast, pre>>

bootVars == <<bcfg, bpc, bcrash, bidx, bres, blog>>

legacyVars == <<lcmd, lidx, lhalf, lself, lres, llog>>
patchVars == <<ppatch, pbuf, pinit, phist>>
fuzzyVars == <<fcode, fpat, fidx, fn, fstart, fres>>
\* The variables of the host's tools that stand on their own.
anaVars == <<acode, ai, ares>>
daVars == <<dfile, dres, dacc>>
shakeVars == <<kpc, ki, kwrong, kres, klog>>
toolVars == <<fuzzyVars, anaVars, daVars, shakeVars>>
\* The variables of everything else.
coreVars == <<rpcVars, frameVars, hookVars, flushes, bootVars, legacyVars, patchVars>>

vars == <<rpcVars, frameVars, hookVars, flushes, bootVars, legacyVars, patchVars, toolVars>>

----------------------------------------------------------------------------
(* Bounds of the model *)

\* N of Protocol<T, N>: the size of a peer's buffer.  Host and device both
\* use 2048; the model scales it down.
BufSize == 8
\* Longest payload handed to upload, longest length handed to download.
MaxLen == 5
\* Operations the driver starts in one session.
MaxOps == 1
\* Cortex-A7 cache line size
CACHE_LINE == 64
\* Size of the device memory window.
MemSize == 8
\* Frames written to the byte-level transport in one run.
MaxFrames == 2
\* Files given on the command line of a boot.
MaxFiles == 2
\* Whole 4 KiB chunks in a DA2 image.
MaxChunks == 2
\* Bytes in the payload of a SendDA.
MaxPayload == 2
\* Words a Read32 asks for.
MaxDwords == 2
\* Bytes before and after the patterns in a buffer that is patched.
MaxPad == 16
\* Applications of a patch to one buffer.
MaxApply == 2
\* Instructions in a buffer that is searched.
MaxInsns == 3
\* Templates in a pattern.
MaxTemplates == 2
\* Entries in a DA file and regions in an entry.
MaxEntries == 2
MaxRegions == 2
\* Accessor calls on a parsed DA.
MaxAccess == 1
\* Instructions in a buffer that is analyzed.
MaxCode == 4
\* The answers other than 0x5f a device gives before it answers 0x5f.
MaxSync == 2
\* Interceptor calls (init, replace, revert) in one run.
MaxHookOps == 3

Min(a, b) == IF a < b THEN a ELSE b

----------------------------------------------------------------------------
(* Messages and responses (da-protocol) *)

MsgAck == [k |-> "Ack"]
MsgRead(addr, size) == [k |-> "Read", addr |-> addr, size |-> size]
MsgWrite(addr, data) == [k |-> "Write", addr |-> addr, data |-> data]
MsgFlushCache(addr, size) == [k |-> "FlushCache", addr |-> addr, size |-> size]
\* r0, r1: Option<u32>, None as <<>> and Some(v) as <<v>>
MsgJump(addr, r0, r1) == [k |-> "Jump", addr |-> addr, r0 |-> r0, r1 |-> r1]
MsgReset == [k |-> "Reset"]
MsgHook == [k |-> "Hook"]
MsgReturn == [k |-> "Return"]
\* A frame whose body does not deserialize.
BadFrame == [k |-> "Bad"]
\* A frame whose body deserializes, to something that is no Ack.
NonAckFrame == [k |-> "Value", v |-> 0]

RspAck == [k |-> "Ack"]
RspNack(e) == [k |-> "Nack", e |-> e]
RspRead(data) == [k |-> "Read", data |-> data]
RspValue(v) == [k |-> "Value", v |-> v]

is_ack(r) == r.k = "Ack"
is_nack_skip(r) == FALSE
is_nack(r) == r.k = "Nack"

----------------------------------------------------------------------------
(* The body encoding (postcard): a varint variant index, then the fields in    *)
(* declaration order; u32 and lengths as little-endian base-128 varints, a    *)
(* byte slice as its length and its bytes, an Option as 0 or 1 and the value. *)

RECURSIVE Varint(_)
Varint(n) == IF n < 128 THEN <<n>> ELSE <<128 + (n % 128)>> \o Varint(n \div 128)

EncOption(o) == IF o = <<>> THEN <<0>> ELSE <<1>> \o Varint(o[1])

EncError(e) ==
    CASE e = "NotSupported" -> <<0>>
      [] e = "NotFound(BldrJump)" -> <<1, 0>>
      [] e = "NotFound(MtPartGenericRead)" -> <<1, 1>>
      [] e = "NotFound(UsbDlHandler)" -> <<1, 2>>
      [] e = "Unreachable" -> <<2>>

EncMessage(m) ==
    CASE m.k = "Ack" -> <<0>>
      [] m.k = "Read" -> <<1>> \o Varint(m.addr) \o Varint(m.size)
      [] m.k = "Write" -> <<2>> \o Varint(m.addr) \o Varint(Len(m.data)) \o m.data
      [] m.k = "FlushCache" -> <<3>> \o Varint(m.addr) \o Varint(m.size)
      [] m.k = "Jump" -> <<4>> \o Varint(m.addr) \o EncOption(m.r0) \o EncOption(m.r1)
      [] m.k = "Reset" -> <<5>>
      [] m.k = "Hook" -> <<6, 0>>
      [] m.k = "Return" -> <<7>>

EncResponse(r) ==
    CASE r.k = "Ack" -> <<0>>
      [] r.k = "Nack" -> <<1>> \o EncError(r.e)
      [] r.k = "Read" -> <<2>> \o Varint(Len(r.data)) \o r.data
      [] r.k = "Value" -> <<3>> \o Varint(r.v)

\* Decoding reads from position pos of the buffer and gives [ok, v, pos]: the
\* value and the position after it, or ok = FALSE.
DecFail == [ok |-> FALSE, v |-> 0, pos |-> 0]
DecOk(v, pos) == [ok |-> TRUE, v |-> v, pos |-> pos]

\* try_take_varint_u32: at most five bytes, the fifth at most 0x0F.
RECURSIVE TakeVarintFrom(_, _, _)
TakeVarintFrom(buf, pos, i) ==
    IF pos > Len(buf) THEN DecFail
    ELSE IF buf[pos] < 128
      THEN IF i = 4 /\ buf[pos] > 15 THEN DecFail
           ELSE DecOk(buf[pos] * (128 ^ i), pos + 1)
      ELSE IF i = 4 THEN DecFail
           ELSE LET r == TakeVarintFrom(buf, pos + 1, i + 1)
                IN  IF r.ok THEN DecOk((buf[pos] - 128) * (128 ^ i) + r.v, r.pos)
                    ELSE DecFail
TakeVarint(buf, pos) == TakeVarintFrom(buf, pos, 0)

TakeOption(buf, pos) ==
    IF pos > Len(buf) THEN DecFail
    ELSE IF buf[pos] = 0 THEN DecOk(<<>>, pos + 1)
    ELSE IF buf[pos] = 1
      THEN LET r == TakeVarint(buf, pos + 1)
           IN  IF r.ok THEN DecOk(<<r.v>>, r.pos) ELSE DecFail
      ELSE DecFail

TakeBytes(buf, pos) ==
    LET n == TakeVarint(buf, pos)
    IN  IF ~n.ok THEN DecFail
        ELSE IF n.pos + n.v - 1 > Len(buf) THEN DecFail
        ELSE DecOk(SubSeq(buf, n.pos, n.pos + n.v - 1), n.pos + n.v)

\* Two u32 fields in a row.
TakeTwo(buf, pos) ==
    LET a == TakeVarint(buf, pos)
        b == TakeVarint(buf, a.pos)
    IN  IF a.ok /\ b.ok THEN DecOk(<<a.v, b.v>>, b.pos) ELSE DecFail

DecError(buf, pos) ==
    LET t == TakeVarint(buf, pos)
        w == TakeVarint(buf, t.pos)
    IN  IF ~t.ok THEN DecFail
        ELSE IF t.v = 0 THEN DecOk("NotSupported", t.pos)
        ELSE IF t.v = 2 THEN DecOk("Unreachable", t.pos)
        ELSE IF t.v = 1 /\ w.ok /\ w.v = 0 THEN DecOk("NotFound(BldrJump)", w.pos)
        ELSE IF t.v = 1 /\ w.ok /\ w.v = 1 THEN DecOk("NotFound(MtPartGenericRead)", w.pos)
        ELSE IF t.v = 1 /\ w.ok /\ w.v = 2 THEN DecOk("NotFound(UsbDlHandler)", w.pos)
        ELSE DecFail

\* postcard::from_bytes::<Message>(buf): bytes after the value are ignored.
DecMessage(buf) ==
    LET t == TakeVarint(buf, 1)
        two == TakeTwo(buf, t.pos)
        a == TakeVarint(buf, t.pos)
        d == TakeBytes(buf, a.pos)
        r0 == TakeOption(buf, a.pos)
        r1 == TakeOption(buf, r0.pos)
        h == TakeVarint(buf, t.pos)
    IN  IF ~t.ok THEN DecFail
        ELSE CASE t.v = 0 -> DecOk(MsgAck, t.pos)
               [] t.v = 1 -> IF two.ok THEN DecOk(MsgRead(two.v[1], two.v[2]), two.pos)
                             ELSE DecFail
               [] t.v = 2 -> IF a.ok /\ d.ok THEN DecOk(MsgWrite(a.v, d.v), d.pos)
                             ELSE DecFail
               [] t.v = 3 -> IF two.ok THEN DecOk(MsgFlushCache(two.v[1], two.v[2]), two.pos)
                             ELSE DecFail
               [] t.v = 4 -> IF a.ok /\ r0.ok /\ r1.ok
                               THEN DecOk(MsgJump(a.v, r0.v, r1.v), r1.pos)
                               ELSE DecFail
               [] t.v = 5 -> DecOk(MsgReset, t.pos)
               [] t.v = 6 -> IF h.ok /\ h.v = 0 THEN DecOk(MsgHook, h.pos) ELSE DecFail
               [] t.v = 7 -> DecOk(MsgReturn, t.pos)
               [] OTHER -> DecFail

\* postcard::from_bytes::<Response>(buf)
DecResponse(buf) ==
    LET t == TakeVarint(buf, 1)
        e == DecError(buf, t.pos)
        d == TakeBytes(buf, t.pos)
        v == TakeVarint(buf, t.pos)
    IN  IF ~t.ok THEN DecFail
        ELSE CASE t.v = 0 -> DecOk(RspAck, t.pos)
               [] t.v = 1 -> IF e.ok THEN DecOk(RspNack(e.v), e.pos) ELSE DecFail
               [] t.v = 2 -> IF d.ok THEN DecOk(RspRead(d.v), d.pos) ELSE DecFail
               [] t.v = 3 -> IF v.ok THEN DecOk(RspValue(v.v), v.pos) ELSE DecFail
               [] OTHER -> DecFail

Encode(typ, v) == IF typ = "Message" THEN EncMessage(v) ELSE EncResponse(v)
Decode(typ, buf) == IF typ = "Message" THEN DecMessage(buf) ELSE DecResponse(buf)

\* RW_BUFFER_SIZE = 2048 - max(size_of::<Message>(), size_of::<Response>()).
\* The size_of are in-memory sizes (a tag and the fixed fields); the model
\* takes the longest encoding of a variant without payload bytes in their place.
SizeOfMessage == Len(EncMessage(MsgJump(0, <<0>>, <<0>>)))
SizeOfResponse == Len(EncResponse(RspNack("NotFound(BldrJump)")))
max(a, b) == IF a > b THEN a ELSE b
RW_BUFFER_SIZE == BufSize - max(SizeOfMessage, SizeOfResponse)

----------------------------------------------------------------------------
(* Host: HostExtensions (crates/da-boot/src/rpc.rs) and its callers *)

NoUp == [addr |-> 0, data |-> <<>>, rest |-> <<>>, i |-> 0, start |-> 0, cur |-> <<>>]
NoDl == [addr |-> 0, len |-> 0, i |-> 0, vec |-> <<>>, start |-> 0]
NoLast == [op |-> "none", addr |-> 0, data |-> <<>>, len |-> 0, vec |-> <<>>,
           start |-> 0, end |-> 0]
UploadDone(addr, data, start, end) ==
    [op |-> "upload", addr |-> addr, data |-> data, len |-> Len(data), vec |-> <<>>,
     start |-> start, end |-> end]
DownloadDone(addr, len, vec, start, end) ==
    [op |-> "download", addr |-> addr, data |-> <<>>, len |-> len, vec |-> vec,
     start |-> start, end |-> end]
NoRes == [ok |-> TRUE, msg |-> "running", chunk |-> -1]

\* Payloads handed to upload: every length up to MaxLen, bytes that differ
\* from position to position.
Payloads == {[j \in 1..n |-> b + j] : n \in 0..MaxLen, b \in {0, 16}}
UploadAddrs == {0, 1}
DownloadLens == 0..MaxLen

\* slice::chunks: the next chunk is the first min(K, len) elements of the rest.
ChunkLenShort(rest) == Min(RW_BUFFER_SIZE - 1, Len(rest))
ChunkLen(rest) == Min(RW_BUFFER_SIZE, Len(rest))
NextChunk(rest) == SubSeq(rest, 1, ChunkLen(rest))
AfterChunk(rest) == SubSeq(rest, ChunkLen(rest) + 1, Len(rest))

\* let addr = addr + (i * Self::RW_BUFFER_SIZE) as u32;
ChunkAddr(addr, i) == addr + i * RW_BUFFER_SIZE

\* Message::flush_cache(addr, data.len() as u32)
UploadFlushWhole(addr, data) == MsgFlushCache(addr, RW_BUFFER_SIZE)
UploadFlush(addr, data) == MsgFlushCache(addr, Len(data))

HostSend(m) ==
    /\ h2d' = Append(h2d, m)
    /\ reqs' = Append(reqs, m)

HostFail(msg, chunk) ==
    /\ hpc' = "err"
    /\ hres' = [ok |-> FALSE, msg |-> msg, chunk |-> chunk]

\* start(): read a message; Ack -> send Ack, anything else -> error.
HostStartBlind ==
    /\ hpc = "start"
    /\ d2h # <<>>
    /\ d2h' = Tail(d2h)
    /\ h2d' = Append(h2d, MsgAck)
    /\ hpc' = "pick"
    /\ UNCHANGED <<flushes, hres, up, dl, last, opsLeft, hread, dpc, inBrom, dmem, reqs, resps, taken>>

HostStart ==
    /\ hpc = "start"
    /\ d2h # <<>>
    /\ d2h' = Tail(d2h)
    /\ IF Head(d2h).k = "Bad"
         THEN /\ HostFail("read_message failed", -1)
              /\ UNCHANGED h2d
         ELSE IF is_ack(Head(d2h))
           THEN /\ h2d' = Append(h2d, MsgAck)
                /\ hpc' = "pick"
                /\ UNCHANGED hres
           ELSE /\ HostFail("Device didn't send ACK", -1)
                /\ UNCHANGED h2d
    /\ UNCHANGED <<flushes, up, dl, last, opsLeft, hread, dpc, inBrom, dmem, reqs, resps, taken>>

\* A blocking read of the port ends with a transport error (timeout).  After a
\* Jump the driver takes that for success: read_response().is_ok_and(is_nack).
HostReadFail ==
    /\ hpc \in {"start", "up_w", "up_f", "dl", "hook", "jump", "repl"}
    /\ d2h = <<>>
    /\ IF hpc = "jump"
         THEN /\ hpc' = "done"
              /\ hres' = [ok |-> TRUE, msg |-> "ok", chunk |-> -1]
         ELSE HostFail("transport error", -1)
    /\ UNCHANGED <<flushes, up, dl, last, opsLeft, hread, dpc, inBrom, dmem, h2d, d2h, reqs, resps, taken>>

\* upload(addr, data), up to its first blocking read.
HostUploadBegin(addr, data) ==
    /\ hpc = "pick"
    /\ opsLeft > 0
    /\ opsLeft' = opsLeft - 1
    /\ IF data = <<>>
         THEN /\ last' = UploadDone(addr, data, Len(reqs), Len(reqs))
              /\ UNCHANGED <<hpc, up, h2d, reqs>>
         ELSE /\ up' = [addr |-> addr, data |-> data, rest |-> AfterChunk(data),
                        i |-> 0, start |-> Len(reqs), cur |-> NextChunk(data)]
              /\ HostSend(MsgWrite(ChunkAddr(addr, 0), NextChunk(data)))
              /\ hpc' = "up_w"
              /\ UNCHANGED last
    /\ UNCHANGED <<flushes, hres, dl, hread, dpc, inBrom, dmem, d2h, resps, taken>>

\* upload: the response to Write of chunk i is read, FlushCache is sent.
HostUploadWriteResp ==
    /\ hpc = "up_w"
    /\ d2h # <<>>
    /\ d2h' = Tail(d2h)
    /\ hread' = hread + 1
    /\ IF Head(d2h).k = "Bad"
         THEN /\ HostFail("read_response failed", -1)
              /\ UNCHANGED <<h2d, reqs>>
         ELSE IF is_nack(Head(d2h))
           THEN /\ HostFail("Device didn't accept chunk", up.i)
                /\ UNCHANGED <<h2d, reqs>>
           ELSE /\ HostSend(UploadFlush(ChunkAddr(up.addr, up.i), up.cur))
                /\ hpc' = "up_f"
                /\ UNCHANGED hres
    /\ UNCHANGED <<flushes, up, dl, last, opsLeft, dpc, inBrom, dmem, resps, taken>>

\* upload: the response to FlushCache of chunk i is read; the next chunk is
\* written, or the upload returns Ok.
HostUploadFlushResp ==
    /\ hpc = "up_f"
    /\ d2h # <<>>
    /\ d2h' = Tail(d2h)
    /\ hread' = hread + 1
    /\ IF Head(d2h).k = "Bad"
         THEN /\ HostFail("read_response failed", -1)
              /\ UNCHANGED <<h2d, reqs, up, last>>
         ELSE IF is_nack(Head(d2h))
           THEN /\ HostFail("Device didn't flush cache at chunk", up.i)
                /\ UNCHANGED <<h2d, reqs, up, last>>
           ELSE IF up.rest = <<>>
             THEN /\ hpc' = "pick"
                  /\ last' = UploadDone(up.addr, up.data, up.start, Len(reqs))
                  /\ UNCHANGED <<h2d, reqs, up, hres>>
             ELSE /\ up' = [up EXCEPT !.rest = AfterChunk(up.rest), !.i = up.i + 1,
                                      !.cur = NextChunk(up.rest)]
                  /\ HostSend(MsgWrite(ChunkAddr(up.addr, up.i + 1), NextChunk(up.rest)))
                  /\ hpc' = "up_w"
                  /\ UNCHANGED <<hres, last>>
    /\ UNCHANGED <<flushes, dl, opsLeft, dpc, inBrom, dmem, resps, taken>>

\* download(addr, len): len / rw full reads, then one read of the remainder.
DownloadCount(len) ==
    (len \div RW_BUFFER_SIZE) + (IF len % RW_BUFFER_SIZE # 0 THEN 1 ELSE 0)
DownloadMsg(addr, len, i) ==
    IF i < len \div RW_BUFFER_SIZE
      THEN MsgRead(addr + i * RW_BUFFER_SIZE, RW_BUFFER_SIZE)
      ELSE MsgRead(addr + (len \div RW_BUFFER_SIZE) * RW_BUFFER_SIZE,
                   len % RW_BUFFER_SIZE)

HostDownloadBegin(addr, len) ==
    /\ hpc = "pick"
    /\ opsLeft > 0
    /\ opsLeft' = opsLeft - 1
    /\ IF DownloadCount(len) = 0
         THEN /\ last' = DownloadDone(addr, len, <<>>, Len(reqs), Len(reqs))
              /\ UNCHANGED <<hpc, dl, h2d, reqs>>
         ELSE /\ dl' = [addr |-> addr, len |-> len, i |-> 0, vec |-> <<>>,
                        start |-> Len(reqs)]
              /\ HostSend(DownloadMsg(addr, len, 0))
              /\ hpc' = "dl"
              /\ UNCHANGED last
    /\ UNCHANGED <<flushes, hres, up, hread, dpc, inBrom, dmem, d2h, resps, taken>>

HostDownloadResp ==
    /\ hpc = "dl"
    /\ d2h # <<>>
    /\ d2h' = Tail(d2h)
    /\ hread' = hread + 1
    /\ IF Head(d2h).k = "Bad"
         THEN /\ HostFail("read_response failed", -1)
              /\ UNCHANGED <<h2d, reqs, dl, last>>
         ELSE IF Head(d2h).k # "Read"
           THEN /\ HostFail("Device didn't respond with read", -1)
                /\ UNCHANGED <<h2d, reqs, dl, last>>
           ELSE IF dl.i + 1 = DownloadCount(dl.len)
             THEN /\ hpc' = "pick"
                  /\ last' = DownloadDone(dl.addr, dl.len, dl.vec \o Head(d2h).data,
                                          dl.start, Len(reqs))
                  /\ UNCHANGED <<h2d, reqs, dl, hres>>
             ELSE /\ dl' = [dl EXCEPT !.i = dl.i + 1, !.vec = dl.vec \o Head(d2h).data]
                  /\ HostSend(DownloadMsg(dl.addr, dl.len, dl.i + 1))
                  /\ hpc' = "dl"
                  /\ UNCHANGED <<hres, last>>
    /\ UNCHANGED <<flushes, up, opsLeft, dpc, inBrom, dmem, resps, taken>>

\* run_rpc_preloader: Hook(MtPartGenericRead), then its response.
HostHook ==
    /\ hpc = "pick"
    /\ opsLeft > 0
    /\ opsLeft' = opsLeft - 1
    /\ HostSend(MsgHook)
    /\ hpc' = "hook"
    /\ UNCHANGED <<flushes, hres, up, dl, last, hread, dpc, inBrom, dmem, d2h, resps, taken>>

HostHookResp ==
    /\ hpc = "hook"
    /\ d2h # <<>>
    /\ d2h' = Tail(d2h)
    /\ hread' = hread + 1
    /\ IF Head(d2h).k = "Bad"
         THEN HostFail("read_response failed", -1)
         ELSE IF ~is_ack(Head(d2h))
           THEN HostFail("Error on enabling LK hooks", -1)
           ELSE /\ hpc' = "pick"
                /\ UNCHANGED hres
    /\ UNCHANGED <<flushes, up, dl, last, opsLeft, dpc, inBrom, dmem, h2d, reqs, resps, taken>>

\* run_rpc_preloader / run_brom: the final Jump ends the driver.
HostJump(addr, r) ==
    /\ hpc = "pick"
    /\ HostSend(MsgJump(addr, r, r))
    /\ hpc' = "jump"
    /\ UNCHANGED <<flushes, hres, up, dl, last, opsLeft, hread, dpc, inBrom, dmem, d2h, resps, taken>>

HostJumpResp ==
    /\ hpc = "jump"
    /\ d2h # <<>>
    /\ d2h' = Tail(d2h)
    /\ hread' = hread + 1
    /\ IF Head(d2h).k # "Bad" /\ is_nack(Head(d2h))
         THEN HostFail("Jump failed", -1)
         ELSE /\ hpc' = "done"
              /\ hres' = [ok |-> TRUE, msg |-> "ok", chunk |-> -1]
    /\ UNCHANGED <<flushes, up, dl, last, opsLeft, dpc, inBrom, dmem, h2d, reqs, resps, taken>>

\* run_repl: one command line is sent, then its response is read and printed.
ReplMsgs ==
    {MsgAck, MsgRead(0, 1), MsgRead(0, BufSize), MsgWrite(0, <<7>>), MsgFlushCache(0, 1), MsgJump(0, <<>>, <<>>),
     MsgReset, MsgReturn}

HostRepl(m) ==
    /\ hpc = "pick"
    /\ opsLeft > 0
    /\ opsLeft' = opsLeft - 1
    /\ HostSend(m)
    /\ hpc' = "repl"
    /\ UNCHANGED <<flushes, hres, up, dl, last, hread, dpc, inBrom, dmem, d2h, resps, taken>>

HostReplResp ==
    /\ hpc = "repl"
    /\ d2h # <<>>
    /\ d2h' = Tail(d2h)
    /\ hread' = hread + 1
    /\ IF Head(d2h).k = "Bad"
         THEN HostFail("read_response failed", -1)
         ELSE /\ hpc' = "pick"
              /\ UNCHANGED hres
    /\ UNCHANGED <<flushes, up, dl, last, opsLeft, dpc, inBrom, dmem, h2d, reqs, resps, taken>>

\* run_repl: end of input.
HostFinish ==
    /\ hpc = "pick"
    /\ hpc' = "done"
    /\ hres' = [ok |-> TRUE, msg |-> "ok", chunk |-> -1]
    /\ UNCHANGED <<flushes, up, dl, last, opsLeft, hread, dpc, inBrom, dmem, h2d, d2h, reqs, resps, taken>>

----------------------------------------------------------------------------
(* Device: main() of payloads/rpc *)

\* protocol.send_message(Message::ack())
DevSendAck ==
    /\ dpc = "boot"
    /\ d2h' = Append(d2h, MsgAck)
    /\ dpc' = "wait_ack"
    /\ UNCHANGED <<flushes, hpc, hres, up, dl, last, opsLeft, hread, inBrom, dmem, h2d, reqs, resps, taken>>

\* if let Ok(r) = protocol.read_response() && r.is_ack() { .. } else { panic!() }
DevReadAck ==
    /\ dpc = "wait_ack"
    /\ h2d # <<>>
    /\ h2d' = Tail(h2d)
    /\ dpc' = IF Head(h2d).k # "Bad" /\ is_ack(Head(h2d)) THEN "loop" ELSE "halted"
    /\ UNCHANGED <<flushes, hpc, hres, up, dl, last, opsLeft, hread, inBrom, dmem, d2h, reqs, resps, taken>>

\* Bytes outside the window are not tracked: they read as 0, writes to them
\* are not recorded.
MemRead(addr, size) ==
    [j \in 1..size |-> IF (addr + j - 1) \in DOMAIN dmem THEN dmem[addr + j - 1] ELSE 0]
\* postcard::to_slice(&Response::Read { data }, &mut self.buf) succeeds
ReadFits(size) == 1 + Len(Varint(size)) + size <= BufSize
MemWrite(addr, data) ==
    [a \in DOMAIN dmem |->
        IF addr <= a /\ a < addr + Len(data) THEN data[a - addr + 1] ELSE dmem[a]]

\* flush_cache(start_addr, size): the lines flush_dcache cleans.  The start is
\* rounded down to a line, the end is the rounded start plus size, rounded up.
flush_dcache(start_addr, size) ==
    LET end_addr == ((start_addr + size + CACHE_LINE - 1) \div CACHE_LINE) * CACHE_LINE
    IN  {start_addr + CACHE_LINE * k : k \in 0..(((end_addr - start_addr) \div CACHE_LINE) - 1)}
flush_cache(start_addr, size) == flush_dcache(start_addr - (start_addr % CACHE_LINE), size)
\* One instruction of the cache maintenance, with the address it is given.
MaintOp(op, addr) == [op |-> op, addr |-> addr]
\* flush_dcache as the instructions it runs: mcr c7, c14, 1 on each line in
\* turn, then dsb
flush_dcache_ops(start_addr, size) ==
    LET end_addr == ((start_addr + size + CACHE_LINE - 1) \div CACHE_LINE) * CACHE_LINE
        n == (end_addr - start_addr) \div CACHE_LINE
    IN  [k \in 1..n |-> MaintOp("DCCIMVAC", start_addr + CACHE_LINE * (k - 1))]
          \o <<MaintOp("DSB", 0)>>
\* flush_icache: ICIALLU, BPIALL, dsb, isb
\* (variant: the invalidates without the barriers)
flush_icache_bare == <<MaintOp("ICIALLU", 0), MaintOp("BPIALL", 0)>>
flush_icache ==
    <<MaintOp("ICIALLU", 0), MaintOp("BPIALL", 0), MaintOp("DSB", 0), MaintOp("ISB", 0)>>
\* flush_cache(start_addr, size) as the instructions it runs
flush_cache_ops(start_addr, size) ==
    flush_dcache_ops(start_addr - (start_addr % CACHE_LINE), size) \o flush_icache
FlushRec(addr, size) == [addr |-> addr, size |-> size, lines |-> flush_cache(addr, size)]
\* the cache maintenance of one pass of the loop on frame m
Flushes(m) == IF m.k = "FlushCache" THEN <<FlushRec(m.addr, m.size)>> ELSE <<>>

Answer(r) == [send |-> TRUE, r |-> r, pc |-> "loop", mem |-> dmem]
Leave(pc) == [send |-> FALSE, r |-> RspAck, pc |-> pc, mem |-> dmem]

\* One pass of the command loop on frame m: the outcomes the match arm can have.
\* (variant: the request is swallowed and the loop goes on)
DevOutcomesSilent(m) == {Leave("loop")}
DevOutcomes(m) ==
    CASE m.k = "Bad" -> {Answer(RspNack("Unreachable"))}
      [] m.k = "Ack" -> {Answer(RspAck)}
      \* a Response::Read that does not fit the buffer fails to serialize, and
      \* main() panics on a failed send_response
      [] m.k = "Read" ->
            IF ReadFits(m.size) THEN {Answer(RspRead(MemRead(m.addr, m.size)))}
            ELSE {Leave("halted")}
      [] m.k = "Write" -> {[Answer(RspAck) EXCEPT !.mem = MemWrite(m.addr, m.data)]}
      [] m.k = "FlushCache" -> {Answer(RspAck)}
      \* the callee takes over; should it return, Nack(Unreachable) is sent.  In
      \* the preloader bldr_jump is searched first: expect() panics on a miss.
      [] m.k = "Jump" ->
            {Leave("jumped"), Answer(RspNack("Unreachable"))}
              \cup (IF inBrom THEN {} ELSE {Leave("halted")})
      \* the watchdog write resets the SoC, before or after the Ack went out
      [] m.k = "Reset" -> {Leave("reset"), [Answer(RspAck) EXCEPT !.pc = "reset"]}
      \* expect("mt_part_generic_read not found") panics on a miss
      [] m.k = "Hook" -> {Answer(RspAck), Leave("halted")}
      [] m.k = "Return" ->
            IF inBrom
              THEN {Answer(RspNack("NotSupported"))}
              ELSE {Leave("halted"), Leave("jumped"), Answer(RspNack("Unreachable"))}
      [] OTHER -> {Answer(RspNack("Unreachable"))}

DevServe ==
    /\ dpc = "loop"
    /\ h2d # <<>>
    /\ h2d' = Tail(h2d)
    /\ \E o \in DevOutcomes(Head(h2d)) :
          /\ dpc' = o.pc
          /\ dmem' = o.mem
          /\ IF o.send
               THEN /\ d2h' = Append(d2h, o.r)
                    /\ resps' = Append(resps, o.r)
               ELSE UNCHANGED <<d2h, resps>>
    /\ taken' = taken + 1
    /\ flushes' = Flushes(Head(h2d))
    /\ UNCHANGED <<hpc, hres, up, dl, last, opsLeft, hread, inBrom, reqs>>

----------------------------------------------------------------------------
(* The transport *)

\* A frame in flight is damaged: its body no longer deserializes, or (during
\* connection establishment) deserializes to something that is no Ack.
GarbleToDevice ==
    /\ h2d # <<>>
    /\ Head(h2d).k # "Bad"
    /\ \/ h2d' = <<BadFrame>> \o Tail(h2d)
       \/ /\ dpc = "wait_ack"
          /\ Head(h2d) # NonAckFrame
          /\ h2d' = <<NonAckFrame>> \o Tail(h2d)
    /\ UNCHANGED <<flushes, hpc, hres, up, dl, last, opsLeft, hread, dpc, inBrom, dmem, d2h, reqs, resps, taken>>

GarbleToHost ==
    /\ d2h # <<>>
    /\ Head(d2h).k # "Bad"
    /\ \/ d2h' = <<BadFrame>> \o Tail(d2h)
       \/ /\ hpc = "start"
          /\ Head(d2h) # NonAckFrame
          /\ d2h' = <<NonAckFrame>> \o Tail(d2h)
    /\ UNCHANGED <<flushes, hpc, hres, up, dl, last, opsLeft, hread, dpc, inBrom, dmem, h2d, reqs, resps, taken>>

----------------------------------------------------------------------------
(* Framing at byte level: Protocol<T, N>::write_data and read_data *)

\* io.write_u32_be(len): to_be_bytes
\* (variant: the length goes out least significant byte first)
U32ToLE(n) == <<n % 256, (n \div 256) % 256, (n \div 65536) % 256, n \div 16777216>>
U32ToBE(n) == <<n \div 16777216, (n \div 65536) % 256, (n \div 256) % 256, n % 256>>
\* io.read_u32_be(): from_be_bytes
U32FromBE(b) == ((b[1] * 256 + b[2]) * 256 + b[3]) * 256 + b[4]

ZeroBuf == [j \in 1..BufSize |-> 0]
\* bytes stored at the start of buf, the rest of buf keeps its content
Overlay(buf, bytes) ==
    [j \in 1..Len(buf) |-> IF j <= Len(bytes) THEN bytes[j] ELSE buf[j]]

\* postcard::to_slice(&data, &mut self.buf): Err when buf is too short, what
\* fitted has been stored by then.
ToSlice(buf, typ, v) ==
    LET bytes == Encode(typ, v)
    IN  IF Len(bytes) <= Len(buf)
          THEN [ok |-> TRUE, bytes |-> bytes, buf |-> Overlay(buf, bytes)]
          ELSE [ok |-> FALSE, bytes |-> <<>>,
                buf |-> Overlay(buf, SubSeq(bytes, 1, Len(buf)))]

\* What write_data puts on the transport: nothing when to_slice fails.
WriteData(buf, typ, v) ==
    LET s == ToSlice(buf, typ, v)
    IN  [ok |-> s.ok, buf |-> s.buf, bytes |-> s.bytes,
         sent |-> IF s.ok THEN U32ToBE(Len(s.bytes)) \o s.bytes ELSE <<>>]

\* read_data on the bytes in flight.  It blocks until the prefix and the body
\* it announces are there.  A prefix above N makes buf[..size] panic; else the
\* body is stored at the start of buf and ALL of buf is handed to from_bytes.
CanRead(w) ==
    /\ Len(w) >= 4
    /\ LET size == U32FromBE(SubSeq(w, 1, 4))
       IN  size > BufSize \/ Len(w) >= 4 + size

ReadData(buf, w, typ) ==
    LET size == U32FromBE(SubSeq(w, 1, 4))
        body == SubSeq(w, 5, 4 + size)
        nbuf == Overlay(buf, body)
        d == Decode(typ, nbuf)
    IN  IF size > BufSize
          THEN [panic |-> TRUE, size |-> size, n |-> 4, body |-> <<>>, buf |-> buf,
                ok |-> FALSE, v |-> 0, rest |-> SubSeq(w, 5, Len(w))]
          ELSE [panic |-> FALSE, size |-> size, n |-> 4 + size, body |-> body,
                buf |-> nbuf, ok |-> d.ok, v |-> d.v,
                rest |-> SubSeq(w, 5 + size, Len(w))]

\* The values the writing peer frames: every variant of both enums, and one
\* whose encoding is longer than buf.
FrameMessages ==
    {MsgAck, MsgRead(1, 2), MsgRead(300, 1), MsgWrite(1, <<7, 9>>),
     MsgWrite(0, [j \in 1..BufSize |-> 3]), MsgFlushCache(0, 64),
     MsgJump(2, <<>>, <<250>>), MsgReset, MsgHook, MsgReturn}
FrameResponses ==
    {RspAck, RspNack("Unreachable"), RspNack("NotFound(UsbDlHandler)"),
     RspRead(<<5, 6>>), RspValue(130)}
FrameTypes == {"Message", "Response"}

\* send_message / send_response of the writing peer
FrameWrite(typ, v) ==
    /\ Len(wlog) < MaxFrames
    /\ LET w == WriteData(wbuf, typ, v)
       IN  /\ wbuf' = w.buf
           /\ wire' = wire \o w.sent
           /\ stream' = stream \o w.sent
           /\ wlog' = Append(wlog, [typ |-> typ, v |-> v, ok |-> w.ok, bytes |-> w.bytes])
    /\ UNCHANGED <<rbuf, rlog, rpcVars, hookVars, flushes, bootVars, legacyVars, patchVars, toolVars>>

\* read_message / read_response of the reading peer
FrameRead(typ) ==
    /\ CanRead(wire)
    /\ LET r == ReadData(rbuf, wire, typ)
       IN  /\ ~r.panic
           /\ rbuf' = r.buf
           /\ wire' = r.rest
           /\ rlog' = Append(rlog, [typ |-> typ, size |-> r.size, n |-> r.n,
                                    body |-> r.body, ok |-> r.ok, v |-> r.v])
    /\ UNCHANGED <<wbuf, wlog, stream, rpcVars, hookVars, flushes, bootVars, legacyVars, patchVars, toolVars>>

FrameIdle ==
    /\ wbuf = ZeroBuf
    /\ rbuf = ZeroBuf
    /\ wire = <<>>
    /\ wlog = <<>>
    /\ rlog = <<>>
    /\ stream = <<>>

FrameNext ==
    \/ \E v \in FrameMessages : FrameWrite("Message", v)
    \/ \E v \in FrameResponses : FrameWrite("Response", v)
    \/ \E typ \in FrameTypes : FrameRead(typ)

----------------------------------------------------------------------------
(* The device loop at byte level: what reaches main() is bytes, not frames *)

DevMessages ==
    {MsgAck, MsgRead(1, 2), MsgRead(0, BufSize), MsgWrite(1, <<7, 9>>),
     MsgFlushCache(0, 64), MsgJump(2, <<>>, <<250>>), MsgReset, MsgHook, MsgReturn}

\* Bodies a peer can send: encoded requests, cut or damaged ones, none at all.
RawBodies ==
    {EncMessage(m) : m \in DevMessages}
      \cup {<<>>, <<1>>, <<2, 0>>, <<2, 0, 3, 7>>, <<4, 0, 2>>, <<6, 1>>, <<9>>,
            <<200, 200, 200, 200, 200>>}

\* Frames a peer can send: any prefix a u32 can hold, here the one of the body
\* and two above N.
RawFrames ==
    {[hdr |-> U32ToBE(Len(b)), body |-> b] : b \in RawBodies}
      \cup {[hdr |-> U32ToBE(BufSize + 1), body |-> [j \in 1..(BufSize + 1) |-> 0]],
            [hdr |-> <<1, 0, 0, 0>>, body |-> <<>>]}

\* The peer puts a frame on the transport.
DevInject(f) ==
    /\ Len(wlog) < MaxFrames
    /\ wire' = wire \o f.hdr \o f.body
    /\ stream' = stream \o f.hdr \o f.body
    /\ wlog' = Append(wlog, [typ |-> "raw", v |-> f.hdr, ok |-> TRUE, bytes |-> f.body])
    /\ UNCHANGED <<wbuf, rbuf, rlog, rpcVars, hookVars, flushes, bootVars, legacyVars, patchVars, toolVars>>

\* One pass of the loop of main(): read_message(), the match, send_response().
\* A failed send_response and an out-of-range buf[..size] both panic, and the
\* panic handler never returns.
DevLoop ==
    /\ dpc = "loop"
    /\ CanRead(wire)
    /\ LET r == ReadData(rbuf, wire, "Message")
           m == IF r.ok THEN r.v ELSE BadFrame
           entry == [typ |-> "Message", size |-> r.size, n |-> r.n, body |-> r.body,
                     ok |-> r.ok, v |-> r.v]
       IN  /\ wire' = r.rest
           /\ flushes' = IF r.panic THEN <<>> ELSE Flushes(m)
           /\ IF r.panic
                THEN /\ dpc' = "halted"
                     /\ rlog' = Append(rlog, [ok |-> FALSE, rsp |-> <<>>, pc |-> "halted"])
                     /\ UNCHANGED <<rbuf, dmem>>
                ELSE \E o \in DevOutcomes(m) :
                       LET w == WriteData(r.buf, "Response", o.r)
                           pc == IF o.send /\ ~w.ok THEN "halted" ELSE o.pc
                       IN  /\ dpc' = pc
                           /\ dmem' = o.mem
                           /\ rbuf' = IF o.send THEN w.buf ELSE r.buf
                           /\ rlog' = Append(rlog,
                                  [ok |-> r.ok,
                                   rsp |-> IF o.send /\ w.ok THEN <<w.sent>> ELSE <<>>,
                                   pc |-> pc])
    /\ UNCHANGED <<hpc, hres, up, dl, last, opsLeft, hread, inBrom, h2d, d2h, reqs,
                   resps, taken, wbuf, wlog, stream, hookVars, bootVars, legacyVars, patchVars, toolVars>>

\* The device after the handshake.
DevInit ==
    /\ hpc = "pick"
    /\ hres = NoRes
    /\ up = NoUp
    /\ dl = NoDl
    /\ last = NoLast
    /\ opsLeft = MaxOps
    /\ hread = 0
    /\ dpc = "loop"
    /\ inBrom \in BOOLEAN
    /\ dmem = [a \in 0..(MemSize - 1) |-> 0]
    /\ h2d = <<>>
    /\ d2h = <<>>
    /\ reqs = <<>>
    /\ resps = <<>>
    /\ taken = 0

DevNext ==
    \/ \E f \in RawFrames : DevInject(f)
    \/ DevLoop

----------------------------------------------------------------------------
(* The interceptor (payloads/interceptor) and its allocator (payloads/bump) *)

\* Addresses are kept as offsets from the base of DRAM, 0x8000_0000, which is
\* a multiple of every alignment used here; a u32 held in memory or in an
\* instruction is kept as its two halfwords [hi, lo].
DramHi == 32768
Addr32(off) == [hi |-> DramHi + (off \div 65536), lo |-> off % 65536]

\* LK_BASE = 0x8002_0000
LK_BASE == 131072
\* BumpAllocator::new(0xa000_0000)
HEAP_BASE == 536870912
\* the hook's thunk in the payload image
THUNK == 851968

\* code.rs
JUMP == [hi |-> 61440, lo |-> 63711]
NOP == 48896

is_32bit(v) == (v \div 2048) \in {29, 30, 31}
is_ldr(v) == (v \div 2048) = 9
extract_ldr(v) == [r |-> (v \div 256) % 8, value |-> (v % 256) * 4]

\* the fields of hw1 and hw2 do not overlap: | is +
pack_movw(rd, imm) ==
    [hi |-> 62016 + ((imm \div 2048) % 2) * 1024 + ((imm \div 4096) % 16),
     lo |-> ((imm \div 256) % 8) * 4096 + rd * 256 + (imm % 256)]
pack_movt(rd, imm) ==
    [hi |-> 62144 + ((imm \div 2048) % 2) * 1024 + ((imm \div 4096) % 16),
     lo |-> ((imm \div 256) % 8) * 4096 + rd * 256 + (imm % 256)]
pack_mov_pair(r, v) == <<pack_movw(r, v.lo), pack_movt(r, v.hi)>>

\* Memory accesses, little-endian.  Bytes outside the tracked regions read 0.
Byte(m, a) == IF a \in DOMAIN m THEN m[a] ELSE 0
Rd16(m, a) == Byte(m, a) + 256 * Byte(m, a + 1)
Rd32(m, a) == [hi |-> Rd16(m, a + 2), lo |-> Rd16(m, a)]
Wr16(m, a, v) ==
    IF a \in DOMAIN m /\ (a + 1) \in DOMAIN m
      THEN [m EXCEPT ![a] = v % 256, ![a + 1] = v \div 256]
      ELSE [x \in DOMAIN m |->
              IF x = a THEN v % 256 ELSE IF x = a + 1 THEN v \div 256 ELSE m[x]]
Wr32(m, a, w) == Wr16(Wr16(m, a, w.lo), a + 2, w.hi)
\* the upper halfword goes first
write_thumb2_instr(m, ptr, w) == Wr16(Wr16(m, ptr, w.hi), ptr + 2, w.lo)
\* ptr::copy_nonoverlapping(src, dst, n)
Copy(m, src, dst, n) ==
    [x \in DOMAIN m |-> IF dst <= x /\ x < dst + n THEN Byte(m, src + (x - dst)) ELSE m[x]]
Bytes(m, a, n) == [j \in 1..n |-> Byte(m, a + j - 1)]

unmask_thumb2(addr) == addr - (addr % 2)
Or1(x) == IF x % 2 = 1 THEN x ELSE x + 1
place_jump(m, ptr, to) == Wr32(Wr32(m, ptr, JUMP), ptr + 4, to)

\* bump: alloc(layout)
align_up(x, align) == ((x + align - 1) \div align) * align

\* replace: the loop that moves the instructions under the hook to code.
RECURSIVE MoveCode(_, _, _, _, _, _)
MoveCode(m, target_ptr, code, n_target, n_code, size) ==
    IF n_target >= size THEN [mem |-> m, n_target |-> n_target, n_code |-> n_code]
    ELSE LET v == Rd16(m, target_ptr + n_target)
         IN  IF is_32bit(v)
               THEN MoveCode(Copy(m, target_ptr + n_target, code + n_code, 4),
                             target_ptr, code, n_target + 4, n_code + 4, size)
               ELSE IF is_ldr(v)
                 THEN LET data == extract_ldr(v)
                          pc_aligned == ((target_ptr + n_target + 4) \div 4) * 4
                          literal_address == pc_aligned + data.value
                          value == Rd32(m, literal_address)
                          pair == pack_mov_pair(data.r, value)
                      IN  MoveCode(write_thumb2_instr(
                                       write_thumb2_instr(m, code + n_code, pair[1]),
                                       code + n_code + 4, pair[2]),
                                   target_ptr, code, n_target + 2, n_code + 8, size)
                 ELSE MoveCode(Copy(m, target_ptr + n_target, code + n_code, 2),
                               target_ptr, code, n_target + 2, n_code + 2, size)

\* let size = if target as u32 % 4 != 0 { 10 } else { 8 };
\* target is the address as passed in, Thumb bit included.
\* (variant: one halfword less is moved)
DisplacementShort(target) == IF target % 4 # 0 THEN 8 ELSE 6
Displacement(target) == IF target % 4 # 0 THEN 10 ELSE 8

NoHook ==
    [op |-> "none", target |-> 0, ok |-> TRUE, err |-> "", size |-> 0, n_target |-> 0,
     code |-> 0, jump_address |-> 0, prev |-> <<"none", 0, TRUE>>]
Prev == <<hlast.op, hlast.target, hlast.ok>>

\* return Err(e): the call ends before it has written anything
\* (variant: the call site has been written to by then)
HookFailDirty(op, target, e) ==
    /\ hlast' = [NoHook EXCEPT !.op = op, !.target = target, !.ok = FALSE, !.err = e,
                               !.prev = Prev]
    /\ mem' = Wr16(mem, unmask_thumb2(target), NOP)
    /\ flushes' = <<>>
    /\ UNCHANGED <<pool_address, pool_trampoline>>
HookFail(op, target, e) ==
    /\ hlast' = [NoHook EXCEPT !.op = op, !.target = target, !.ok = FALSE, !.err = e,
                               !.prev = Prev]
    /\ flushes' = <<>>
    /\ UNCHANGED <<mem, pool_address, pool_trampoline>>

\* Interceptor::init()
IcInit ==
    /\ hops < MaxHookOps
    /\ hops' = hops + 1
    /\ pool_init' = TRUE
    /\ pool_address' = <<>>
    /\ pool_trampoline' = <<>>
    \* Vec::<u32>::with_capacity(10), Vec::<Trampoline>::with_capacity(10)
    /\ heap' = align_up(align_up(heap, 4) + 40, 4) + 80
    /\ hlast' = [NoHook EXCEPT !.op = "init", !.prev = Prev]
    /\ flushes' = <<>>
    /\ UNCHANGED <<mem, pre, rpcVars, frameVars, bootVars, legacyVars, patchVars, toolVars>>

\* Interceptor::replace(target, thunk)
Replace(target) ==
    /\ pool_init
    /\ hops < MaxHookOps
    /\ hops' = hops + 1
    /\ IF target % 2 = 0
         THEN /\ HookFail("replace", target, "UnsupportedMode")
              /\ UNCHANGED <<heap, pre>>
         ELSE LET target_ptr == unmask_thumb2(target)
                  size == Displacement(target)
                  code == align_up(heap, 4)
                  mv == MoveCode(mem, target_ptr, code, 0, 0, size)
                  pad == IF (code + mv.n_code) % 4 # 0 THEN 2 ELSE 0
                  m1 == IF pad = 2 THEN Wr16(mv.mem, code + mv.n_code, NOP) ELSE mv.mem
                  n_code == mv.n_code + pad
                  jump_address == Or1(target + mv.n_target)
                  m2 == Wr32(Wr32(m1, code + n_code, JUMP),
                             code + n_code + 4, Addr32(jump_address))
                  m3 == IF target_ptr % 4 # 0 THEN Wr16(m2, target_ptr, NOP) ELSE m2
                  at == IF target_ptr % 4 # 0 THEN target_ptr + 2 ELSE target_ptr
              IN  /\ heap' = code + 64
                  /\ pool_trampoline' =
                        Append(pool_trampoline,
                               [address |-> code, jump_address |-> jump_address])
                  /\ pool_address' = Append(pool_address, target_ptr)
                  /\ mem' = place_jump(m3, at, Addr32(Or1(THUNK)))
                  /\ pre' = [pre EXCEPT ![target_ptr] = Bytes(mem, target_ptr, 16)]
                  /\ flushes' = <<FlushRec(code, 64), FlushRec(target, 64)>>
                  /\ hlast' = [op |-> "replace", target |-> target, ok |-> TRUE,
                               err |-> "", size |-> size, n_target |-> mv.n_target,
                               code |-> code, jump_address |-> jump_address,
                               prev |-> Prev]
    /\ UNCHANGED <<pool_init, rpcVars, frameVars, bootVars, legacyVars, patchVars, toolVars>>

\* position(|addr| *addr == target): the first index, 0 when there is none
RECURSIVE PositionFrom(_, _, _)
PositionFrom(seq, x, i) ==
    IF i > Len(seq) THEN 0 ELSE IF seq[i] = x THEN i ELSE PositionFrom(seq, x, i + 1)
Position(seq, x) == PositionFrom(seq, x, 1)
\* Vec::remove(i)
Remove(seq, i) == SubSeq(seq, 1, i - 1) \o SubSeq(seq, i + 1, Len(seq))

\* Interceptor::revert(target)
Revert(target) ==
    /\ pool_init
    /\ hops < MaxHookOps
    /\ hops' = hops + 1
    /\ LET t == unmask_thumb2(target)
           i == Position(pool_address, t)
       IN  IF target % 2 = 0 THEN HookFail("revert", target, "UnsupportedMode")
           ELSE IF i = 0 THEN HookFail("revert", target, "TrampolineNotFound")
           ELSE LET trampoline == pool_trampoline[i]
                    size == trampoline.jump_address - t
                IN  /\ mem' = Copy(mem, trampoline.address, t, size)
                    /\ flushes' = <<FlushRec(t, size)>>
                    /\ pool_address' = Remove(pool_address, i)
                    /\ pool_trampoline' = Remove(pool_trampoline, i)
                    /\ hlast' = [op |-> "revert", target |-> target, ok |-> TRUE,
                                 err |-> "", size |-> size, n_target |-> 0,
                                 code |-> trampoline.address,
                                 jump_address |-> trampoline.jump_address,
                                 prev |-> Prev]
    /\ UNCHANGED <<heap, pool_init, pre, rpcVars, frameVars, bootVars, legacyVars, patchVars, toolVars>>

\* Interceptor::original(target): Option<usize>, None as <<>> and Some(a) as <<a>>
\* (variant: the address comes back with the Thumb bit set)
original_tagged(target) ==
    LET i == Position(pool_address, unmask_thumb2(target))
    IN  IF i = 0 THEN <<>> ELSE <<Or1(pool_trampoline[i].address)>>
original(target) ==
    LET i == Position(pool_address, unmask_thumb2(target))
    IN  IF i = 0 THEN <<>> ELSE <<pool_trampoline[i].address>>

\* A call of Interceptor::original(target); code holds the address returned.
Original(target) ==
    /\ pool_init
    /\ hops < MaxHookOps
    /\ hops' = hops + 1
    /\ LET r == original(target)
       IN  hlast' = [NoHook EXCEPT !.op = "original", !.target = target,
                                  !.ok = (r # <<>>),
                                  !.code = IF r = <<>> THEN 0 ELSE r[1],
                                  !.prev = Prev]
    /\ flushes' = <<>>
    /\ UNCHANGED <<mem, heap, pool_init, pool_address, pool_trampoline, pre,
                   rpcVars, frameVars, bootVars, legacyVars, patchVars, toolVars>>

\* The code under hook: two call sites in LK, one on a 4-byte boundary and one
\* 2 bytes off it, each holding one of these instruction mixes (halfwords).
SiteA == LK_BASE
SiteB == LK_BASE + 18
Sites == {SiteA, SiteB}
LkSize == 40
Mixes ==
    { \* push {r4,lr}; sub sp,#8; mov r4,r0; mov r5,r1; movs r0,#0; bx r3
      <<46352, 45186, 17924, 17933, 8192, 18200>>,
      \* ldr r3,[pc,#4]; bx r3; two halfwords of padding; the literal 0x80021000
      <<19201, 18200, 0, 0, 4096, 32770>>,
      \* push.w {r4-r8,lr}; sub sp,#8; mov r4,r0; push.w {r4-r8,lr}
      <<59693, 16880, 45186, 17924, 59693, 16880>>,
      \* push {r4,lr}; sub sp,#8; mov r4,r0; ldr r3,[pc,#4]; movs r0,#0; bx r3
      <<46352, 45186, 17924, 19201, 8192, 18200>> }

\* bytes of a run of halfwords
HalfBytes(hs) == [j \in 1..(2 * Len(hs)) |->
                    IF j % 2 = 1 THEN hs[(j + 1) \div 2] % 256 ELSE hs[j \div 2] \div 256]

HeapSize == 120 * MaxHookOps
MemDom == (LK_BASE..(LK_BASE + LkSize - 1)) \cup (HEAP_BASE..(HEAP_BASE + HeapSize - 1))

\* Memory with mix a at SiteA and mix b at SiteB; every other byte of LK holds
\* a value of its own, the heap is clear.
MemWith(a, b) ==
    [x \in MemDom |->
        IF x >= SiteA /\ x < SiteA + 12 THEN HalfBytes(a)[x - SiteA + 1]
        ELSE IF x >= SiteB /\ x < SiteB + 12 THEN HalfBytes(b)[x - SiteB + 1]
        ELSE IF x < HEAP_BASE THEN 100 + (x - LK_BASE)
        ELSE 0]

HookTargets == {SiteA + 1, SiteB + 1, SiteA}

HookIdle ==
    /\ mem = MemWith(<<46352, 45186, 17924, 17933, 8192, 18200>>,
                     <<46352, 45186, 17924, 17933, 8192, 18200>>)
    /\ heap = HEAP_BASE
    /\ pool_init = FALSE
    /\ pool_address = <<>>
    /\ pool_trampoline = <<>>
    /\ hops = 0
    /\ hlast = NoHook
    /\ pre = [t \in Sites |-> Bytes(mem, t, 16)]

HookInit ==
    /\ \E a \in Mixes, b \in Mixes : mem = MemWith(a, b)
    /\ heap = HEAP_BASE
    /\ pool_init = FALSE
    /\ pool_address = <<>>
    /\ pool_trampoline = <<>>
    /\ hops = 0
    /\ hlast = NoHook
    /\ pre = [t \in Sites |-> Bytes(mem, t, 16)]

\* Installs alone, over more code: also a run of pc-relative loads, each of
\* which takes 8 bytes in the trampoline, and a 32-bit instruction that lies
\* across the end of the bytes to move.
InstallMixes ==
    Mixes \cup { \* ldr r3,[pc,#4], six times
                 <<19201, 19201, 19201, 19201, 19201, 19201>>,
                 \* push {r4,lr}; sub sp,#8; mov r4,r0; mov r5,r1; push.w {r4-r8,lr}
                 <<46352, 45186, 17924, 17933, 59693, 16880>> }

InstallInit ==
    /\ \E a \in InstallMixes, b \in InstallMixes : mem = MemWith(a, b)
    /\ heap = HEAP_BASE
    /\ pool_init = FALSE
    /\ pool_address = <<>>
    /\ pool_trampoline = <<>>
    /\ hops = 0
    /\ hlast = NoHook
    /\ pre = [t \in Sites |-> Bytes(mem, t, 16)]

InstallNext ==
    \/ IcInit
    \/ \E t \in {SiteA + 1, SiteB + 1} : Replace(t)

HookNext ==
    \/ IcInit
    \/ \E t \in HookTargets : Replace(t)
    \/ \E t \in HookTargets : Revert(t)
    \/ \E t \in HookTargets : Original(t)

----------------------------------------------------------------------------
(* The hook request of the RPC payload: Message::LKHook in main()            *)

\* search_pattern(start, end, code): the first even offset from start, below
\* end - 2 * n, where the n halfwords of code stand; <<>> for None
search_pattern(m, start, end, code) ==
    LET n == Len(code)
        hits == {o \in start..(end - 2 * n - 1) :
                    /\ (o - start) % 2 = 0
                    /\ \A i \in 1..n : Rd16(m, o + 2 * (i - 1)) = code[i]}
    IN  IF n = 0 \/ end <= start \/ hits = {} THEN <<>>
        ELSE <<CHOOSE o \in hits : \A q \in hits : o <= q>>

\* LK_END, for the part of LK the model keeps
LkEnd == LK_BASE + LkSize
\* search!(LK_BASE, LK_END, 0xe92d, 0x4ff0, 0x4699, 0x4b60, 0xb08d)
\*     .or_else(|| search!(LK_BASE, LK_END, 0xe92d, 0x4ff0, 0x4699, 0x4b61, 0xb089, 0x4690))
MtPartGenericRead1 == <<59693, 20464, 18073, 19296, 45197>>
MtPartGenericRead2 == <<59693, 20464, 18073, 19297, 45193, 18064>>
find_mt_part_generic_read(m) ==
    LET first == search_pattern(m, LK_BASE, LkEnd, MtPartGenericRead1)
    IN  IF first # <<>> THEN first ELSE search_pattern(m, LK_BASE, LkEnd, MtPartGenericRead2)

\* Interceptor::replace(target, thunk) for a Thumb target, from memory m and
\* the allocator at hp: what it writes and what it pushes to the pool.
Install(m, hp, target) ==
    LET target_ptr == unmask_thumb2(target)
        size == Displacement(target)
        code == align_up(hp, 4)
        mv == MoveCode(m, target_ptr, code, 0, 0, size)
        pad == IF (code + mv.n_code) % 4 # 0 THEN 2 ELSE 0
        m1 == IF pad = 2 THEN Wr16(mv.mem, code + mv.n_code, NOP) ELSE mv.mem
        n_code == mv.n_code + pad
        jump_address == Or1(target + mv.n_target)
        m2 == Wr32(Wr32(m1, code + n_code, JUMP), code + n_code + 4, Addr32(jump_address))
        m3 == IF target_ptr % 4 # 0 THEN Wr16(m2, target_ptr, NOP) ELSE m2
        at == IF target_ptr % 4 # 0 THEN target_ptr + 2 ELSE target_ptr
    IN  [mem |-> place_jump(m3, at, Addr32(Or1(THUNK))), heap |-> code + 64,
         address |-> target_ptr, size |-> size, n_target |-> mv.n_target,
         trampoline |-> [address |-> code, jump_address |-> jump_address]]

\* POOL after Interceptor::init(): POOL.init(..) writes two new vectors over
\* whatever POOL held.
PoolAfterInit == [address |-> <<>>, trampoline |-> <<>>]

\* One pass of the loop of main() on Message::LKHook: Interceptor::init(),
\* the search, expect(), replace(found | 1), Response::ack().  A miss panics,
\* and the panic handler never returns.
LKHook ==
    /\ hlast.err # "panic"
    /\ hops < MaxHookOps
    /\ hops' = hops + 1
    /\ pool_init' = TRUE
    /\ LET pool == PoolAfterInit
           hp == align_up(align_up(heap, 4) + 40, 4) + 80
           found == find_mt_part_generic_read(mem)
       IN  IF found = <<>>
             THEN /\ hlast' = [NoHook EXCEPT !.op = "LKHook", !.ok = FALSE,
                                             !.err = "panic", !.prev = Prev]
                  /\ pool_address' = pool.address
                  /\ pool_trampoline' = pool.trampoline
                  /\ heap' = hp
                  /\ flushes' = <<>>
                  /\ UNCHANGED <<mem, pre>>
             ELSE LET r == Install(mem, hp, found[1] + 1)
                  IN  /\ mem' = r.mem
                      /\ heap' = r.heap
                      /\ pool_address' = Append(pool.address, r.address)
                      /\ pool_trampoline' = Append(pool.trampoline, r.trampoline)
                      /\ pre' = [pre EXCEPT ![r.address] = Bytes(mem, r.address, 16)]
                      /\ flushes' = <<FlushRec(r.trampoline.address, 64),
                                      FlushRec(found[1] + 1, 64)>>
                      /\ hlast' = [op |-> "LKHook", target |-> found[1] + 1, ok |-> TRUE,
                                   err |-> "", size |-> r.size, n_target |-> r.n_target,
                                   code |-> r.trampoline.address,
                                   jump_address |-> r.trampoline.jump_address,
                                   prev |-> Prev]
    /\ UNCHANGED <<rpcVars, frameVars, bootVars, legacyVars, patchVars, toolVars>>

\* The call sites of LK hold mt_part_generic_read in either of its two
\* forms, a routine that starts like it, or one of the other mixes.
LkMixes ==
    Mixes \cup {MtPartGenericRead1 \o <<18064>>, MtPartGenericRead2,
                <<59693, 20464, 18073, 19298, 45193, 18064>>}
\* The heap a request uses: the two vectors of init() and one trampoline.
LkHeapSize == (120 + 64) * MaxHookOps
LkMemWith(a, b) ==
    [x \in (LK_BASE..(LK_BASE + LkSize - 1)) \cup (HEAP_BASE..(HEAP_BASE + LkHeapSize - 1)) |->
        IF x >= SiteA /\ x < SiteA + 12 THEN HalfBytes(a)[x - SiteA + 1]
        ELSE IF x >= SiteB /\ x < SiteB + 12 THEN HalfBytes(b)[x - SiteB + 1]
        ELSE IF x < HEAP_BASE THEN 100 + (x - LK_BASE)
        ELSE 0]

LkHookInit ==
    /\ \E a \in LkMixes, b \in LkMixes : mem = LkMemWith(a, b)
    /\ heap = HEAP_BASE
    /\ pool_init = FALSE
    /\ pool_address = <<>>
    /\ pool_trampoline = <<>>
    /\ hops = 0
    /\ hlast = NoHook
    /\ pre = [t \in Sites |-> Bytes(mem, t, 16)]

LkHookNext == LKHook

----------------------------------------------------------------------------
(* The host's boot flows (da-boot/src/boot): run_brom, run_preloader,        *)
(* run_rpc_preloader.  Each step either succeeds or fails, as the device and *)
(* the transport decide; a failed step ends the run through `?`.             *)

\* A u32 address as its two halfwords.
U32(hi, lo) == [hi |-> hi, lo |-> lo]
\* run_payload(0x2001000, ..) in run_brom
BROM_PAYLOAD_ADDR == U32(512, 4096)
\* SoC::preloader_addr(): 0x2007500
preloader_addr == U32(512, 29952)
\* SoC::da_dram_addr(): 0x81e00000
da_dram_addr == U32(33248, 0)
\* BOOT_ARG_ADDR = 0x800d0000
BOOT_ARG_ADDR == U32(32781, 0)
\* an address a user gives for LK: 0x80020000
LkAddr == U32(32770, 0)
NoAddr == U32(0, 0)

BRec(step, addr, args) == [step |-> step, ok |-> TRUE, addr |-> addr, args |-> args]
BRunning == [ok |-> TRUE, msg |-> "running"]
BErr(msg) == [ok |-> FALSE, msg |-> msg]

\* return Err(..)
BFail(rec, msg) ==
    /\ blog' = Append(blog, [rec EXCEPT !.ok = FALSE])
    /\ bpc' = "done"
    /\ bres' = BErr(msg)

\* step()?; the step succeeds and the flow goes on, or it fails and the run ends
BStep(rec, next) ==
    \/ /\ blog' = Append(blog, rec)
       /\ bpc' = next
       /\ bres' = bres
    \/ BFail(rec, rec.step)

\* DeviceMode: the mode get_ports() derives from the USB product id of the
\* one port open_port() finds (0x0003 BootROM, 0x2000 Preloader)
DeviceModes == {"Brom", "Preloader"}

\* assert!(device_mode.is_brom()) / assert!(device_mode.is_preloader()) on
\* entry of the stage the flow goes on with after `rec`: the stage is entered
\* when the enumerated mode is the asserted one and the run panics otherwise
BEnter(rec, mode, asserted, next) ==
    /\ blog' = Append(blog, rec)
    /\ IF mode = asserted
         THEN bpc' = next /\ bres' = bres
         ELSE bpc' = "done" /\ bres' = BErr("panic")

\* What read_response() can give: a response, or an error (timeout)
ReadResults == {[ok |-> TRUE, r |-> RspAck], [ok |-> TRUE, r |-> RspNack("Unreachable")],
                [ok |-> TRUE, r |-> RspValue(0)], [ok |-> FALSE, r |-> RspAck]}
ReadName(res) == IF res.ok THEN res.r.k ELSE "Err"

\* protocol.read_response().is_ok_and(|r| r.is_nack())
\* (variant: the reply to Jump is not looked at)
JumpRefusedNever(res) == FALSE
JumpRefused(res) == res.ok /\ res.r.k = "Nack"

\* ---- run_brom
BromRunPayload ==
    /\ bpc = "brom"
    /\ BStep(BRec("run_payload", BROM_PAYLOAD_ADDR, <<>>), "brom_sync")
    /\ UNCHANGED <<bcfg, bcrash, bidx, rpcVars, frameVars, hookVars, flushes, legacyVars, patchVars, toolVars>>

BromStartRpc ==
    /\ bpc = "brom_sync"
    /\ BStep(BRec("start_rpc", NoAddr, <<>>), "brom_file")
    /\ UNCHANGED <<bcfg, bcrash, bidx, rpcVars, frameVars, hookVars, flushes, legacyVars, patchVars, toolVars>>

\* state.cli.preloader: Some -> fs::read(..)?, None -> Err("Preloader is required ..")
BromReadPreloader ==
    /\ bpc = "brom_file"
    /\ IF bcfg.preloader
         THEN BStep(BRec("read_preloader", NoAddr, <<>>), "brom_upload")
         ELSE BFail(BRec("read_preloader", NoAddr, <<>>), "Preloader is required")
    /\ UNCHANGED <<bcfg, bcrash, bidx, rpcVars, frameVars, hookVars, flushes, legacyVars, patchVars, toolVars>>

BromUpload ==
    /\ bpc = "brom_upload"
    /\ BStep(BRec("upload", preloader_addr, <<>>), "brom_jump")
    /\ UNCHANGED <<bcfg, bcrash, bidx, rpcVars, frameVars, hookVars, flushes, legacyVars, patchVars, toolVars>>

BromJump ==
    /\ bpc = "brom_jump"
    /\ BStep(BRec("jump", preloader_addr, <<<<>>, <<>>>>), "brom_jump_resp")
    /\ UNCHANGED <<bcfg, bcrash, bidx, rpcVars, frameVars, hookVars, flushes, legacyVars, patchVars, toolVars>>

\* state.cli.crash = false
\* (variant: the request to crash is left as it was)
CrashKept == bcrash
CrashCleared == FALSE

\* the reply to Jump; then state.cli.crash = false; drop(protocol)
BromJumpResp ==
    /\ bpc = "brom_jump_resp"
    /\ \E res \in ReadResults :
          IF JumpRefused(res)
            THEN /\ BFail(BRec("jump_response", NoAddr, <<ReadName(res)>>), "Jump failed")
                 /\ UNCHANGED bcrash
            ELSE /\ blog' = blog \o <<BRec("jump_response", NoAddr, <<ReadName(res)>>),
                                      BRec("close_port", NoAddr, <<>>)>>
                 /\ bpc' = "brom_open"
                 /\ bcrash' = CrashCleared
                 /\ UNCHANGED bres
    /\ UNCHANGED <<bcfg, bidx, rpcVars, frameVars, hookVars, flushes, legacyVars, patchVars, toolVars>>

BromOpenPort ==
    /\ bpc = "brom_open"
    /\ \E mode \in DeviceModes : BStep(BRec("open_port", NoAddr, <<mode>>), "brom_ready")
    /\ UNCHANGED <<bcfg, bcrash, bidx, rpcVars, frameVars, hookVars, flushes, legacyVars, patchVars, toolVars>>

BromInvalidateReady ==
    /\ bpc = "brom_ready"
    /\ BStep(BRec("invalidate_ready", NoAddr, <<>>), "brom_handshake")
    /\ UNCHANGED <<bcfg, bcrash, bidx, rpcVars, frameVars, hookVars, flushes, legacyVars, patchVars, toolVars>>

\* handshake(&mut port)?; run_preloader(state, port, device_mode)
BromHandshake ==
    /\ bpc = "brom_handshake"
    /\ \/ BEnter(BRec("handshake", NoAddr, <<>>), blog[Len(blog) - 1].args[1],
                 "Preloader", "preloader")
       \/ BFail(BRec("handshake", NoAddr, <<>>), "handshake")
    /\ UNCHANGED <<bcfg, bcrash, bidx, rpcVars, frameVars, hookVars, flushes, legacyVars, patchVars, toolVars>>

\* ---- run_preloader
PlWorkaround ==
    /\ bpc = "preloader"
    /\ BStep(BRec("workaround", NoAddr, <<>>),
             IF bcrash THEN "pl_crash"
             ELSE IF bcfg.command = "Boot" THEN "rpc" ELSE "da1")
    /\ UNCHANGED <<bcfg, bcrash, bidx, rpcVars, frameVars, hookVars, flushes, legacyVars, patchVars, toolVars>>

\* How Read32::new(0x0, 1).run(port) can end: normally, with an I/O error of
\* the port, or with one of the errors run() itself returns
Read32Results == {"Ok", "Io", "InvalidEchoData", "InvalidStatus"}

\* match Read32::new(0x0, 1).run(port) { Err(Simpleport(Io(_))) => Ok(()),
\*                                       _ => Err(Custom("Retry")) }
\* (variant: a read that completes counts as a crash too)
crash_to_brom_lenient(res) == res \in {"Io", "Ok"}
crash_to_brom(res) == res = "Io"

\* status!(crash_to_brom(&mut port))?; drop(port)
PlCrash ==
    /\ bpc = "pl_crash"
    /\ \E res \in Read32Results :
          IF crash_to_brom(res)
            THEN /\ blog' = blog \o <<BRec("crash_to_brom", NoAddr, <<res>>),
                                      BRec("close_port", NoAddr, <<>>)>>
                 /\ bpc' = "pl_crash_open"
                 /\ UNCHANGED bres
            ELSE BFail(BRec("crash_to_brom", NoAddr, <<res>>), "Retry")
    /\ UNCHANGED <<bcfg, bcrash, bidx, rpcVars, frameVars, hookVars, flushes, legacyVars, patchVars, toolVars>>

PlCrashOpenPort ==
    /\ bpc = "pl_crash_open"
    /\ \E mode \in DeviceModes :
          BStep(BRec("open_port", NoAddr, <<mode>>), "pl_crash_handshake")
    /\ UNCHANGED <<bcfg, bcrash, bidx, rpcVars, frameVars, hookVars, flushes, legacyVars, patchVars, toolVars>>

\* handshake(&mut port)?; return run_brom(state, port, device_mode)
PlCrashHandshake ==
    /\ bpc = "pl_crash_handshake"
    /\ \/ BEnter(BRec("handshake", NoAddr, <<>>), blog[Len(blog)].args[1], "Brom", "brom")
       \/ BFail(BRec("handshake", NoAddr, <<>>), "handshake")
    /\ UNCHANGED <<bcfg, bcrash, bidx, rpcVars, frameVars, hookVars, flushes, legacyVars, patchVars, toolVars>>

\* ---- run_rpc_preloader
RpcRunPayload ==
    /\ bpc = "rpc"
    /\ BStep(BRec("run_payload", da_dram_addr, <<>>), "rpc_sync")
    /\ UNCHANGED <<bcfg, bcrash, bidx, rpcVars, frameVars, hookVars, flushes, legacyVars, patchVars, toolVars>>

RpcStartRpc ==
    /\ bpc = "rpc_sync"
    /\ BStep(BRec("start_rpc", NoAddr, <<>>), "rpc_files")
    /\ UNCHANGED <<bcfg, bcrash, bidx, rpcVars, frameVars, hookVars, flushes, legacyVars, patchVars, toolVars>>

\* match mode { Raw => (), Lk => .., REPL => .. } once the files are uploaded
AfterUploads ==
    CASE bcfg.mode = "Raw" -> "rpc_jump"
      [] bcfg.mode = "Lk" -> "rpc_boot_arg"
      [] bcfg.mode = "REPL" -> "rpc_repl"

\* command.input ... fs::read(i) ... collect::<Result<Vec<_>>>()?
RpcReadFiles ==
    /\ bpc = "rpc_files"
    /\ BStep(BRec("read_files", NoAddr, <<>>), "rpc_upload")
    /\ bidx' = 1
    /\ UNCHANGED <<bcfg, bcrash, rpcVars, frameVars, hookVars, flushes, legacyVars, patchVars, toolVars>>

\* one turn of the loop over payloads.iter().zip(command.upload_address.iter())
RpcUpload ==
    /\ bpc = "rpc_upload"
    /\ BStep(BRec("upload", bcfg.upload_address[bidx], <<bidx>>),
             IF bidx = Len(bcfg.upload_address) THEN AfterUploads ELSE "rpc_upload")
    /\ bidx' = bidx + 1
    /\ UNCHANGED <<bcfg, bcrash, rpcVars, frameVars, hookVars, flushes, legacyVars, patchVars, toolVars>>

\* if command.upload_address.len() > 1
\* (variant: the hook is set up for any number of files)
HookNeededAlways(addrs) == TRUE
HookNeeded(addrs) == Len(addrs) > 1

\* Mode::Lk: the boot argument goes to BOOT_ARG_ADDR
RpcBootArg ==
    /\ bpc = "rpc_boot_arg"
    /\ BStep(BRec("upload", BOOT_ARG_ADDR, <<>>),
             IF HookNeeded(bcfg.upload_address) THEN "rpc_hook" ELSE "rpc_jump")
    /\ UNCHANGED <<bcfg, bcrash, bidx, rpcVars, frameVars, hookVars, flushes, legacyVars, patchVars, toolVars>>

\* protocol.send_message(Message::hook(HookId::MtPartGenericRead))?
RpcHook ==
    /\ bpc = "rpc_hook"
    /\ BStep(BRec("hook", NoAddr, <<>>), "rpc_hook_resp")
    /\ UNCHANGED <<bcfg, bcrash, bidx, rpcVars, frameVars, hookVars, flushes, legacyVars, patchVars, toolVars>>

\* if !status!(protocol.read_response())?.is_ack() { return Err(..) }
RpcHookResp ==
    /\ bpc = "rpc_hook_resp"
    /\ \E res \in ReadResults :
          LET rec == BRec("hook_response", NoAddr, <<ReadName(res)>>)
          IN  IF ~res.ok THEN BFail(rec, "read_response")
              ELSE IF ~is_ack(res.r) THEN BFail(rec, "Error on enabling LK hooks")
              ELSE /\ blog' = Append(blog, rec)
                   /\ bpc' = "rpc_jump"
                   /\ UNCHANGED bres
    /\ UNCHANGED <<bcfg, bcrash, bidx, rpcVars, frameVars, hookVars, flushes, legacyVars, patchVars, toolVars>>

\* Mode::REPL => return run_repl(protocol)
RpcRepl ==
    /\ bpc = "rpc_repl"
    /\ blog' = Append(blog, BRec("run_repl", NoAddr, <<>>))
    /\ bpc' = "done"
    /\ bres' \in {[ok |-> TRUE, msg |-> "ok"], BErr("run_repl")}
    /\ UNCHANGED <<bcfg, bcrash, bidx, rpcVars, frameVars, hookVars, flushes, legacyVars, patchVars, toolVars>>

\* let jump = command.jump_address.unwrap_or(da_addr);
\* (variant: without an override the jump goes to the first file's address)
JumpTargetFirstFile(cfg) ==
    IF cfg.jump_address # <<>> THEN cfg.jump_address[1] ELSE cfg.upload_address[1]
JumpTarget(cfg) ==
    IF cfg.jump_address # <<>> THEN cfg.jump_address[1] ELSE da_dram_addr

\* send_message(Message::jump(jump, Some(BOOT_ARG_ADDR), Some(250)))?
RpcJump ==
    /\ bpc = "rpc_jump"
    /\ BStep(BRec("jump", JumpTarget(bcfg), <<<<BOOT_ARG_ADDR>>, <<250>>>>), "rpc_jump_resp")
    /\ UNCHANGED <<bcfg, bcrash, bidx, rpcVars, frameVars, hookVars, flushes, legacyVars, patchVars, toolVars>>

RpcJumpResp ==
    /\ bpc = "rpc_jump_resp"
    /\ \E res \in ReadResults :
          LET rec == BRec("jump_response", NoAddr, <<ReadName(res)>>)
          IN  IF JumpRefused(res) THEN BFail(rec, "Jump failed")
              ELSE /\ blog' = Append(blog, rec)
                   /\ bpc' = "done"
                   /\ bres' = [ok |-> TRUE, msg |-> "ok"]
    /\ UNCHANGED <<bcfg, bcrash, bidx, rpcVars, frameVars, hookVars, flushes, legacyVars, patchVars, toolVars>>

\* ---- run_da1
\* SoC::da_sram_addr(): 0x2007000
da_sram_addr == U32(512, 28672)
\* *da2.base(), the load address the DA file gives for DA2
Da2Base == U32(32768, 0)
\* chunk_size
DA2_CHUNK == 4096
\* 0x5a
DA_ACK == 90

\* port.write_u32_be(v): the four bytes, most significant first
U32Bytes(u) == <<u.hi \div 256, u.hi % 256, u.lo \div 256, u.lo % 256>>
\* n as u32
AsU32(n) == U32((n \div 65536) % 65536, n % 65536)

\* What port.read_u8() can give: the byte the device sent, or an error
ByteResults == {[ok |-> TRUE, b |-> DA_ACK], [ok |-> TRUE, b |-> 165], [ok |-> FALSE, b |-> 0]}

\* port.read_u8()? != 0x5a
\* (variant: the byte is read and not compared)
RejectedNever(b) == FALSE
Rejected(b) == b # DA_ACK

\* if port.read_u8()? != 0x5a { return Err(msg) }
DaExpectAck(next, msg) ==
    \E res \in ByteResults :
        IF ~res.ok THEN BFail(BRec("read_u8", NoAddr, <<>>), "read_u8")
        ELSE IF Rejected(res.b) THEN BFail(BRec("read_u8", NoAddr, <<res.b>>), msg)
        ELSE /\ blog' = Append(blog, BRec("read_u8", NoAddr, <<res.b>>))
             /\ bpc' = next
             /\ bres' = bres

\* fs::read, parse_da, hwcode_mut, the patches, da1()
\* do_patch_da2: the hardcoded and the security patches on the code of DA2
PatchDa2 == <<BRec("patch", NoAddr, <<"da2", "hardcoded">>),
              BRec("patch", NoAddr, <<"da2", "security">>)>>

\* if !command.skip_patch { do_patch(da1 ..) twice; if no DA1 exploit is
\* selected, do_patch_da2(..) }
PatchOnLoad ==
    IF bcfg.skip_patch THEN <<>>
    ELSE <<BRec("patch", NoAddr, <<"da1", "hardcoded">>),
           BRec("patch", NoAddr, <<"da1", "security">>)>>
           \o (IF bcfg.exploit THEN <<>> ELSE PatchDa2)

\* The image a region is sent from: da.da1().data() / da.da2().data() are the
\* bytes of the file unless do_patch ran on the region's code before
DataOf(region) ==
    IF \E i \in 1..Len(blog) : blog[i].step = "patch" /\ blog[i].args[1] = region
      THEN "patched" ELSE "file"

\* fs::read(command.da)?; parse_da(&data)?; hwcode_mut(..)?; then the patches
DaLoad ==
    /\ bpc = "da1"
    /\ \/ /\ blog' = blog \o <<BRec("load_da", NoAddr, <<>>)>> \o PatchOnLoad
          /\ bpc' = "da_send"
          /\ UNCHANGED bres
       \/ BFail(BRec("load_da", NoAddr, <<>>), "load_da")
    /\ UNCHANGED <<bcfg, bcrash, bidx, rpcVars, frameVars, hookVars, flushes, legacyVars, patchVars, toolVars>>

DaSendDA ==
    /\ bpc = "da_send"
    /\ BStep(BRec("send_da", da_sram_addr, <<DataOf("da1")>>), "da_jump")
    /\ UNCHANGED <<bcfg, bcrash, bidx, rpcVars, frameVars, hookVars, flushes, legacyVars, patchVars, toolVars>>

DaJumpDA ==
    /\ bpc = "da_jump"
    /\ BStep(BRec("jump_da", da_sram_addr, <<>>), "da_setup")
    /\ UNCHANGED <<bcfg, bcrash, bidx, rpcVars, frameVars, hookVars, flushes, legacyVars, patchVars, toolVars>>

DaSetup ==
    /\ bpc = "da_setup"
    /\ BStep(BRec("da1_setup", NoAddr, <<>>), IF bcfg.exploit THEN "da_exploit" ELSE "da2")
    /\ UNCHANGED <<bcfg, bcrash, bidx, rpcVars, frameVars, hookVars, flushes, legacyVars, patchVars, toolVars>>

\* do_run_exploit(..)?; do_patch_da2(..)?
DaExploit ==
    /\ bpc = "da_exploit"
    /\ \/ /\ blog' = blog \o <<BRec("exploit", NoAddr, <<>>)>> \o PatchDa2
          /\ bpc' = "da2"
          /\ UNCHANGED bres
       \/ BFail(BRec("exploit", NoAddr, <<>>), "exploit")
    /\ UNCHANGED <<bcfg, bcrash, bidx, rpcVars, frameVars, hookVars, flushes, legacyVars, patchVars, toolVars>>

\* da.da2().ok_or(..)?
DaGetDa2 ==
    /\ bpc = "da2"
    /\ BStep(BRec("da2", NoAddr, <<DataOf("da2")>>), "da2_base")
    /\ UNCHANGED <<bcfg, bcrash, bidx, rpcVars, frameVars, hookVars, flushes, legacyVars, patchVars, toolVars>>

Da2WriteBase ==
    /\ bpc = "da2_base"
    /\ BStep(BRec("write_u32_be", NoAddr, U32Bytes(Da2Base)), "da2_len")
    /\ UNCHANGED <<bcfg, bcrash, bidx, rpcVars, frameVars, hookVars, flushes, legacyVars, patchVars, toolVars>>

Da2WriteLen ==
    /\ bpc = "da2_len"
    /\ BStep(BRec("write_u32_be", NoAddr, U32Bytes(AsU32(bcfg.da2len))), "da2_chunk")
    /\ UNCHANGED <<bcfg, bcrash, bidx, rpcVars, frameVars, hookVars, flushes, legacyVars, patchVars, toolVars>>

Da2WriteChunkSize ==
    /\ bpc = "da2_chunk"
    /\ BStep(BRec("write_u32_be", NoAddr, U32Bytes(AsU32(DA2_CHUNK))), "da2_setup_ack")
    /\ UNCHANGED <<bcfg, bcrash, bidx, rpcVars, frameVars, hookVars, flushes, legacyVars, patchVars, toolVars>>

Da2SetupAck ==
    /\ bpc = "da2_setup_ack"
    /\ DaExpectAck("da2_data", "DA2 setup is not accepted")
    /\ bidx' = 0
    /\ UNCHANGED <<bcfg, bcrash, rpcVars, frameVars, hookVars, flushes, legacyVars, patchVars, toolVars>>

\* for i in 0..chunks { port.write_all(&da2data[i * chunk_size..(i + 1) * chunk_size])?
Da2WriteChunk ==
    /\ bpc = "da2_data"
    /\ bidx < bcfg.da2len \div DA2_CHUNK
    /\ BStep(BRec("write_all", NoAddr, <<bidx * DA2_CHUNK, (bidx + 1) * DA2_CHUNK>>),
             "da2_data_ack")
    /\ UNCHANGED <<bcfg, bcrash, bidx, rpcVars, frameVars, hookVars, flushes, legacyVars, patchVars, toolVars>>

Da2ChunkAck ==
    /\ bpc = "da2_data_ack"
    /\ DaExpectAck("da2_data", "DA2 data is not accepted")
    /\ bidx' = bidx + 1
    /\ UNCHANGED <<bcfg, bcrash, rpcVars, frameVars, hookVars, flushes, legacyVars, patchVars, toolVars>>

\* if da2data.len() % chunk_size != 0 { port.write_all(&da2data[chunks * chunk_size..])?
Da2WriteTail ==
    /\ bpc = "da2_data"
    /\ bidx >= bcfg.da2len \div DA2_CHUNK
    /\ IF bcfg.da2len % DA2_CHUNK # 0
       THEN BStep(BRec("write_all", NoAddr,
                       <<(bcfg.da2len \div DA2_CHUNK) * DA2_CHUNK, bcfg.da2len>>),
                  "da2_tail_ack")
       ELSE /\ bpc' = "da2_start"
            /\ UNCHANGED <<blog, bres>>
    /\ UNCHANGED <<bcfg, bcrash, bidx, rpcVars, frameVars, hookVars, flushes, legacyVars, patchVars, toolVars>>

Da2TailAck ==
    /\ bpc = "da2_tail_ack"
    /\ DaExpectAck("da2_start", "DA2 data is not accepted")
    /\ UNCHANGED <<bcfg, bcrash, bidx, rpcVars, frameVars, hookVars, flushes, legacyVars, patchVars, toolVars>>

\* if status!(port.read_u8())? != 0x5a { return Err(..) }  Ok(())
Da2Started ==
    /\ bpc = "da2_start"
    /\ \E res \in ByteResults :
          IF ~res.ok THEN BFail(BRec("read_u8", NoAddr, <<>>), "read_u8")
          ELSE IF Rejected(res.b) THEN BFail(BRec("read_u8", NoAddr, <<res.b>>), "DA2 didn't start")
          ELSE /\ blog' = Append(blog, BRec("read_u8", NoAddr, <<res.b>>))
               /\ bpc' = "done"
               /\ bres' = [ok |-> TRUE, msg |-> "ok"]
    /\ UNCHANGED <<bcfg, bcrash, bidx, rpcVars, frameVars, hookVars, flushes, legacyVars, patchVars, toolVars>>

\* ---- the runs
BootModes == {"Raw", "Lk", "REPL"}
FileAddrs == {da_dram_addr, LkAddr}
\* main() asserts input.len() == upload_address.len() and !input.is_empty()
UploadAddresses == UNION {[1..n -> FileAddrs] : n \in 1..MaxFiles}
\* The lengths of DA2 images: whole chunks, with and without a partial one
Da2Lens == {k * DA2_CHUNK + r : k \in 0..MaxChunks, r \in {0, 100}}
BootCommandConfigs ==
    [entry : {"brom", "preloader"}, command : {"Boot"}, mode : BootModes,
     upload_address : UploadAddresses, jump_address : {<<>>, <<LkAddr>>},
     preloader : BOOLEAN, crash : BOOLEAN, da2len : {0}, exploit : {FALSE},
     skip_patch : {FALSE}]
DaCommandConfigs ==
    [entry : {"brom", "preloader"}, command : {"DA"}, mode : {"Raw"},
     upload_address : {<<da_dram_addr>>}, jump_address : {<<>>},
     preloader : BOOLEAN, crash : BOOLEAN, da2len : Da2Lens, exploit : BOOLEAN,
     skip_patch : BOOLEAN]
BootConfigs == BootCommandConfigs \cup DaCommandConfigs

BootIdle ==
    /\ bcfg = [entry |-> "preloader", command |-> "Boot", mode |-> "Raw",
               upload_address |-> <<da_dram_addr>>, jump_address |-> <<>>,
               preloader |-> FALSE, crash |-> FALSE, da2len |-> 0, exploit |-> FALSE,
               skip_patch |-> FALSE]
    /\ bpc = "preloader"
    /\ bcrash = FALSE
    /\ bidx = 0
    /\ bres = BRunning
    /\ blog = <<>>

BootInit ==
    /\ bcfg \in BootConfigs
    /\ bpc = bcfg.entry
    /\ bcrash = bcfg.crash
    /\ bidx = 0
    /\ bres = BRunning
    /\ blog = <<>>

BootNext ==
    \/ BromRunPayload \/ BromStartRpc \/ BromReadPreloader \/ BromUpload
    \/ BromJump \/ BromJumpResp \/ BromOpenPort \/ BromInvalidateReady
    \/ BromHandshake
    \/ PlWorkaround \/ PlCrash \/ PlCrashOpenPort \/ PlCrashHandshake
    \/ RpcRunPayload \/ RpcStartRpc \/ RpcReadFiles \/ RpcUpload \/ RpcBootArg
    \/ RpcHook \/ RpcHookResp \/ RpcRepl \/ RpcJump \/ RpcJumpResp
    \/ DaLoad \/ DaSendDA \/ DaJumpDA \/ DaSetup \/ DaExploit \/ DaGetDa2
    \/ Da2WriteBase \/ Da2WriteLen \/ Da2WriteChunkSize \/ Da2SetupAck
    \/ Da2WriteChunk \/ Da2ChunkAck \/ Da2WriteTail \/ Da2TailAck \/ Da2Started

----------------------------------------------------------------------------
(* Legacy vendor commands: the run() method derived for a command structure *)

\* One field of a command structure with its #[protocol(..)] attributes:
\* kind is "echo", "rx" or "tx"; status is <<s>> for status = s; size is
\* <<f>> for size = f.
PField(name, kind, ty, status, size) ==
    [name |-> name, kind |-> kind, ty |-> ty, status |-> status, size |-> size]

\* #[protocol(command = 0xd7)] struct SendDA
SendDAFields ==
    << PField("addr", "echo", "u32", <<>>, <<>>),
       PField("payload_len", "echo", "u32", <<>>, <<>>),
       PField("da_sig_len", "echo", "u32", <<>>, <<>>),
       PField("zero_status", "rx", "u16", <<0>>, <<>>),
       PField("payload", "tx", "Slice", <<>>, <<>>),
       PField("checksum", "rx", "u16", <<>>, <<>>),
       PField("status", "rx", "u16", <<0>>, <<>>) >>

\* #[protocol(command = 0xd5)] struct JumpDA
JumpDAFields ==
    << PField("addr", "echo", "u32", <<>>, <<>>),
       PField("status", "rx", "u16", <<0>>, <<>>) >>

\* #[protocol(command = 0xd1)] struct Read32
Read32Fields ==
    << PField("addr", "echo", "u32", <<>>, <<>>),
       PField("dwords", "echo", "u32", <<>>, <<>>),
       PField("status", "rx", "u16", <<0>>, <<>>),
       PField("buf", "rx", "Vec", <<>>, <<"dwords">>),
       PField("final_status", "rx", "u16", <<0>>, <<>>) >>

\* #[protocol(naked)] struct DA1Setup: no command byte; a tx field with
\* always = v sends v
DA1SetupFields ==
    << PField("sync", "rx", "u8", <<192>>, <<>>),
       PField("nand_ret", "rx", "u32", <<>>, <<>>),
       PField("nand_id_count", "rx", "u16", <<>>, <<>>),
       PField("_nand_id1", "rx", "u16", <<>>, <<>>),
       PField("_nand_id2", "rx", "u16", <<>>, <<>>),
       PField("_nand_id3", "rx", "u16", <<>>, <<>>),
       PField("_nand_id4", "rx", "u16", <<>>, <<>>),
       PField("emmc_ret", "rx", "u32", <<>>, <<>>),
       PField("_emmc_id1", "rx", "u32", <<>>, <<>>),
       PField("_emmc_id2", "rx", "u32", <<>>, <<>>),
       PField("_emmc_id3", "rx", "u32", <<>>, <<>>),
       PField("_emmc_id4", "rx", "u32", <<>>, <<>>),
       PField("_cont", "tx", "u8", <<>>, <<>>),
       PField("minor", "rx", "u8", <<>>, <<>>),
       PField("major", "rx", "u8", <<>>, <<>>),
       PField("_unknown", "rx", "u8", <<>>, <<>>),
       PField("brom_version", "tx", "u8", <<>>, <<>>),
       PField("preloader_version", "tx", "u8", <<>>, <<>>),
       PField("_nor_chip_select1", "tx", "u8", <<>>, <<>>),
       PField("_nor_chip_select2", "tx", "u8", <<>>, <<>>),
       PField("_nand_chip_select", "tx", "u8", <<>>, <<>>),
       PField("_nand_acccon", "tx", "u32", <<>>, <<>>),
       PField("bmt_present", "tx", "u8", <<>>, <<>>),
       PField("bmt_size", "tx", "u32", <<>>, <<>>),
       PField("charge_mode", "tx", "u8", <<>>, <<>>),
       PField("reset_mode", "tx", "u8", <<>>, <<>>),
       PField("external_clock_freq", "tx", "u8", <<>>, <<>>),
       PField("msdc_channel", "tx", "u8", <<>>, <<>>),
       PField("dram_status", "rx", "u32", <<0>>, <<>>) >>
\* DA1Setup::new(): Default::default(), and the values of always = v
DA1SetupSelf ==
    [sync |-> 0,
     nand_ret |-> 0,
     nand_id_count |-> 0,
     _nand_id1 |-> 0,
     _nand_id2 |-> 0,
     _nand_id3 |-> 0,
     _nand_id4 |-> 0,
     emmc_ret |-> 0,
     _emmc_id1 |-> 0,
     _emmc_id2 |-> 0,
     _emmc_id3 |-> 0,
     _emmc_id4 |-> 0,
     _cont |-> 0,
     minor |-> 0,
     major |-> 0,
     _unknown |-> 0,
     brom_version |-> 1,
     preloader_version |-> 1,
     _nor_chip_select1 |-> 0,
     _nor_chip_select2 |-> 0,
     _nand_chip_select |-> 0,
     _nand_acccon |-> 0,
     bmt_present |-> 0,
     bmt_size |-> 0,
     charge_mode |-> 2,
     reset_mode |-> 82,
     external_clock_freq |-> 2,
     msdc_channel |-> 0,
     dram_status |-> 0]

\* let command = #command; run through load().tx().rx().echo_status()
CommandField == PField("command", "echo", "u8", <<>>, <<>>)

LegField == IF lidx = 0 THEN CommandField ELSE lcmd.fields[lidx]
\* let tmp = self.#from  (let tmp = command for the command byte)
LegLoad == IF lidx = 0 THEN lcmd.command ELSE lself[LegField.name]

LegRunning == [k |-> "running", a |-> 0, b |-> 0]
LegOk == [k |-> "Ok", a |-> 0, b |-> 0]
\* the ? on a port call: the transport's error is returned
LegIo == [k |-> "Io", a |-> 0, b |-> 0]
InvalidEchoData(a, b) == [k |-> "InvalidEchoData", a |-> a, b |-> b]
InvalidStatus(a, b) == [k |-> "InvalidStatus", a |-> a, b |-> b]

LegRec(dir, val, ok) == [dir |-> dir, field |-> LegField.name, val |-> val, ok |-> ok]

\* return Err(..): run() ends
LegFail(rec, e) ==
    /\ llog' = Append(llog, rec)
    /\ lres' = e
    /\ UNCHANGED <<lcmd, lidx, lhalf, lself>>

\* The code of the next field starts; after the last one run() returns Ok(()).
LegAdvance ==
    /\ lidx' = lidx + 1
    /\ IF lidx + 1 > Len(lcmd.fields)
       THEN lres' = LegOk /\ lhalf' = "rx"
       ELSE lres' = lres
            /\ lhalf' = IF lcmd.fields[lidx + 1].kind = "rx" THEN "rx" ELSE "tx"

\* if (tmp as u16) != (#status as u16)
\* (variant: the status is read and not compared)
StatusMismatchNever(tmp, status) == FALSE
StatusMismatch(tmp, status) == tmp % 65536 # status % 65536

\* What a read of the port can give for a value the host sent before: that
\* value, another one, or an error.
EchoReads(v) == {[ok |-> TRUE, v |-> v], [ok |-> TRUE, v |-> IF v = 0 THEN 1 ELSE 0],
                 [ok |-> FALSE, v |-> 0]}
\* What a read of a 16- or 32-bit value can give.
ValueReads == {[ok |-> TRUE, v |-> 0], [ok |-> TRUE, v |-> 7495], [ok |-> FALSE, v |-> 0]}
\* What the read of a field can give, by the width of the field: a u8 the
\* sync byte or another byte, a status of 32 bits also a value above 0xffff.
ReadsOf(f) ==
    CASE f.ty = "u8" -> {[ok |-> TRUE, v |-> 192], [ok |-> TRUE, v |-> 0], [ok |-> FALSE, v |-> 0]}
      [] f.ty = "u32" /\ f.status # <<>> -> ValueReads \cup {[ok |-> TRUE, v |-> 65536]}
      [] f.ty = "u32" -> {[ok |-> TRUE, v |-> 0], [ok |-> FALSE, v |-> 0]}
      [] OTHER -> ValueReads

\* load().tx(): port.simple_write(tmp)? or port.write_all(tmp)?
LegTx ==
    /\ lres = LegRunning
    /\ lidx <= Len(lcmd.fields)
    /\ lhalf = "tx"
    /\ \E sent \in BOOLEAN :
          IF ~sent THEN LegFail(LegRec("tx", LegLoad, FALSE), LegIo)
          ELSE /\ llog' = Append(llog, LegRec("tx", LegLoad, TRUE))
               /\ IF LegField.kind = "echo"
                  THEN lhalf' = "rx" /\ UNCHANGED <<lidx, lres>>
                  ELSE LegAdvance
               /\ UNCHANGED <<lcmd, lself>>
    /\ UNCHANGED <<rpcVars, frameVars, hookVars, flushes, bootVars, patchVars, toolVars>>

\* rx().echo_status().store() of an echo field
LegEchoRx ==
    /\ lres = LegRunning
    /\ lidx <= Len(lcmd.fields)
    /\ lhalf = "rx"
    /\ LegField.kind = "echo"
    /\ \E res \in EchoReads(LegLoad) :
          IF ~res.ok THEN LegFail(LegRec("rx", 0, FALSE), LegIo)
          ELSE IF res.v # LegLoad
          THEN LegFail(LegRec("rx", res.v, TRUE), InvalidEchoData(LegLoad, res.v))
          ELSE /\ llog' = Append(llog, LegRec("rx", res.v, TRUE))
               /\ lself' = IF lidx = 0 THEN lself
                           ELSE [lself EXCEPT ![LegField.name] = res.v]
               /\ LegAdvance
               /\ UNCHANGED lcmd
    /\ UNCHANGED <<rpcVars, frameVars, hookVars, flushes, bootVars, patchVars, toolVars>>

\* rx() [status(s)] store() of an rx field without a size
LegRx ==
    /\ lres = LegRunning
    /\ lidx >= 1 /\ lidx <= Len(lcmd.fields)
    /\ lhalf = "rx"
    /\ LegField.kind = "rx" /\ LegField.size = <<>>
    /\ \E res \in ReadsOf(LegField) :
          IF ~res.ok THEN LegFail(LegRec("rx", 0, FALSE), LegIo)
          ELSE IF LegField.status # <<>> /\ StatusMismatch(res.v, LegField.status[1])
          THEN LegFail(LegRec("rx", res.v, TRUE),
                       InvalidStatus(LegField.status[1], res.v % 65536))
          ELSE /\ llog' = Append(llog, LegRec("rx", res.v, TRUE))
               /\ lself' = [lself EXCEPT ![LegField.name] = res.v]
               /\ LegAdvance
               /\ UNCHANGED lcmd
    /\ UNCHANGED <<rpcVars, frameVars, hookVars, flushes, bootVars, patchVars, toolVars>>

\* for i in 0..self.#size { rx(); self.#ident.push(tmp); }
LegRxVec ==
    /\ lres = LegRunning
    /\ lidx >= 1 /\ lidx <= Len(lcmd.fields)
    /\ lhalf = "rx"
    /\ LegField.kind = "rx" /\ LegField.size # <<>>
    /\ IF Len(lself[LegField.name]) < lself[LegField.size[1]]
       THEN \E res \in ValueReads :
               IF ~res.ok THEN LegFail(LegRec("rx", 0, FALSE), LegIo)
               ELSE /\ llog' = Append(llog, LegRec("rx", res.v, TRUE))
                    /\ lself' = [lself EXCEPT ![LegField.name] = Append(@, res.v)]
                    /\ UNCHANGED <<lcmd, lidx, lhalf, lres>>
       ELSE LegAdvance /\ UNCHANGED <<lcmd, lself, llog>>
    /\ UNCHANGED <<rpcVars, frameVars, hookVars, flushes, bootVars, patchVars, toolVars>>

\* ProtocolKind::Naked: the structure has no command byte
NakedCommand == -1
\* The payloads given to SendDA::new.
LegPayloads == UNION {[1..n -> {165}] : n \in 0..MaxPayload}
\* SendDA::new(addr, payload_len, da_sig_len, payload), JumpDA::new(addr),
\* Read32::new(addr, dwords); the other fields are Default::default().
LegCommands ==
    {[name |-> "SendDA", command |-> 215, fields |-> SendDAFields,
      self |-> [addr |-> 33583104, payload_len |-> Len(p), da_sig_len |-> sig,
                zero_status |-> 0, payload |-> p, checksum |-> 0, status |-> 0]]
        : p \in LegPayloads, sig \in {0, 256}}
    \cup {[name |-> "JumpDA", command |-> 213, fields |-> JumpDAFields,
           self |-> [addr |-> 33583104, status |-> 0]]}
    \cup {[name |-> "DA1Setup", command |-> NakedCommand, fields |-> DA1SetupFields,
           self |-> DA1SetupSelf]}
    \cup {[name |-> "Read32", command |-> 209, fields |-> Read32Fields,
           self |-> [addr |-> 33583104, dwords |-> n, status |-> 0, buf |-> <<>>,
                     final_status |-> 0]] : n \in 0..MaxDwords}

LegacyStart(c) ==
    /\ lcmd = [name |-> c.name, command |-> c.command, fields |-> c.fields]
    /\ lidx = IF c.command = NakedCommand THEN 1 ELSE 0
    /\ lhalf = IF c.command = NakedCommand /\ c.fields[1].kind = "rx" THEN "rx" ELSE "tx"
    /\ lself = c.self
    /\ lres = LegRunning
    /\ llog = <<>>

\* No command is run.
LegacyIdle ==
    /\ lcmd = [name |-> "JumpDA", command |-> 213, fields |-> JumpDAFields]
    /\ lidx = 0
    /\ lhalf = "tx"
    /\ lself = [addr |-> 0, status |-> 0]
    /\ lres = LegOk
    /\ llog = <<>>

LegacyInit == \E c \in LegCommands : LegacyStart(c)

LegacyNext == LegTx \/ LegEchoRx \/ LegRx \/ LegRxVec

----------------------------------------------------------------------------
(* The patcher: Patch::patch of the patches that match assembled instructions *)

\* What a patch is made of: the bytes its pattern assembles to, where its
\* offset lies relative to the match (sub bytes before the start of the
\* match, or add bytes after the end of the range search returns), and the
\* bytes its replacement assembles to.
PatchRec(name, pattern, sub, add, replacement) ==
    [name |-> name, pattern |-> pattern, sub |-> sub, add |-> add,
     replacement |-> replacement]

\* "mov.w r2, #921600; mov r1, r4", o.start() - (2 + 4), "mov.w r0, #0"
UartPort ==
    PatchRec("UartPort", <<79, 244, 97, 34, 33, 70>>, <<6>>, <<>>, <<79, 240, 0, 0>>)
\* "mov r2, sp; sub.w r1, r9, #0x100; mov r0, r5", o.end() + 4 + (5 * 2), "cmp r1, r1"
Hash ==
    PatchRec("Hash", <<106, 70, 169, 245, 128, 113, 40, 70>>, <<>>, <<14>>, <<137, 66>>)
\* "push {r0,r1,r2,r4,r5,lr}; mov r4, r0; mov r5, r1", *o.start(), "movs r0, #0; bx lr"
SecRegionCheck ==
    PatchRec("SecRegionCheck", <<55, 181, 4, 70, 13, 70>>, <<0>>, <<>>, <<0, 32, 112, 71>>)
\* ARM "ldr r3, [r3]; ldr r2, [r3]; cmp r2, #0x11", o.start() - (3 * 4),
\* ARM "movs r0, #0; bx lr"
DAA ==
    PatchRec("DAA", <<0, 48, 147, 229, 0, 32, 147, 229, 17, 0, 82, 227>>, <<12>>, <<>>,
             <<0, 0, 176, 227, 30, 255, 47, 225>>)

Patches == {UartPort, Hash, SecRegionCheck, DAA}

\* slice[i..].starts_with(pattern), i counted from 0
starts_with(slice, i, pattern) ==
    /\ Len(slice) - i >= Len(pattern)
    /\ \A j \in 1..Len(pattern) : slice[i + j] = pattern[j]

\* search(slice, pattern): the first position the pattern is at, <<>> for None
search(slice, pattern) ==
    LET hits == {i \in 0..(Len(slice) - 1) : starts_with(slice, i, pattern)}
    IN  IF hits = {} THEN <<>>
        ELSE <<CHOOSE i \in hits : \A j \in hits : i <= j>>

\* replace(slice, at, replacement), for a range that lies in the slice
replace(slice, at, replacement) ==
    [i \in 1..Len(slice) |->
        IF i > at /\ i <= at + Len(replacement) THEN replacement[i - at] ELSE slice[i]]

PatchOk == [k |-> "Ok", e |-> ""]
PatchErr(e) == [k |-> "Err", e |-> e]
\* The thread panics: an arithmetic overflow or a slice index out of range.
PatchPanic == [k |-> "panic", e |-> ""]

\* slice[at..at + replacement.len()] is a range of the slice
InRange(slice, at, n) == at + n <= Len(slice)

\* P.patch(bytes): what it returns and what the buffer is after it.
\* PatchCode::search gives start..=start + pattern.len(); the offset takes
\* bytes off its start or adds bytes to its end. A subtraction below 0
\* panics where overflow is checked, and where it wraps the range of replace
\* is not one of the slice; replace panics on a range outside the slice.
patch(P, bytes) ==
    LET found == search(bytes, P.pattern) IN
    IF found = <<>> THEN [res |-> PatchErr("PatternNotFound"), buf |-> bytes]
    ELSE LET start == found[1]
             end == start + Len(P.pattern)
         IN  IF P.sub # <<>> /\ start < P.sub[1] THEN [res |-> PatchPanic, buf |-> bytes]
             ELSE LET at == IF P.sub # <<>> THEN start - P.sub[1] ELSE end + P.add[1]
                  IN  IF ~InRange(bytes, at, Len(P.replacement))
                      THEN [res |-> PatchPanic, buf |-> bytes]
                      ELSE [res |-> PatchOk, buf |-> replace(bytes, at, P.replacement)]

\* do_patch: i.patch(data), once more on the same buffer
PatchApply ==
    /\ Len(phist) < MaxApply
    /\ \A i \in 1..Len(phist) : phist[i].res # PatchPanic
    /\ LET out == patch(ppatch, pbuf)
       IN  /\ pbuf' = out.buf
           /\ phist' = Append(phist, out)
    /\ UNCHANGED <<ppatch, pinit, rpcVars, frameVars, hookVars, flushes, bootVars, legacyVars, toolVars>>

\* Buffers: the pattern not at all, once, twice in a row and twice with
\* bytes between, with bytes of another kind before and after.
Fill(n) == [i \in 1..n |-> 0]
Pads == {n \in 0..MaxPad : n % 4 = 0}
PatchBuffers(P) ==
    {Fill(a) \o mid \o Fill(b) :
        a \in Pads, b \in Pads,
        mid \in {<<>>, P.pattern, P.pattern \o P.pattern, P.pattern \o Fill(4) \o P.pattern}}

PatchIdle ==
    /\ ppatch = UartPort
    /\ pbuf = <<>>
    /\ pinit = <<>>
    /\ phist = <<>>

PatchInit ==
    /\ ppatch \in Patches
    /\ pbuf \in PatchBuffers(ppatch)
    /\ pinit = pbuf
    /\ phist = <<>>

PatchNext == PatchApply

\* The patches the drivers walk, in the order of the loop: run_da1 runs
\* do_patch on DA::hardcoded and then on DA::security; run_brom walks
\* Preloader::security first.
DaCatalog == <<UartPort, Hash>>
PreloaderCatalog == <<SecRegionCheck, DAA>>
CatalogOf(p) == IF p \in {UartPort, Hash} THEN DaCatalog ELSE PreloaderCatalog

\* for i in patches { match i.patch(data) { Ok(()) => println!(..),
\*                                           Err(e) => println!(..) } }
\* One pass of the loop: ppatch is i, phist holds the passes made.  A patch
\* that panics unwinds through the loop.
DoPatch ==
    /\ Len(phist) < Len(CatalogOf(ppatch))
    /\ \A i \in 1..Len(phist) : phist[i].res # PatchPanic
    /\ LET out == patch(ppatch, pbuf)
           catalog == CatalogOf(ppatch)
           n == Len(phist) + 1
       IN  /\ pbuf' = out.buf
           /\ phist' = Append(phist, out)
           /\ ppatch' = IF n < Len(catalog) /\ out.res # PatchPanic
                           THEN catalog[n + 1] ELSE ppatch
    /\ UNCHANGED <<pinit, rpcVars, frameVars, hookVars, flushes, bootVars, legacyVars, toolVars>>

\* Images: the patterns of the catalog's patches, each there or not, with
\* other bytes before, between and after.
DriverBuffers(catalog) ==
    {Fill(a) \o m1 \o Fill(b) \o m2 \o Fill(c) :
        a \in Pads, b \in Pads, c \in Pads,
        m1 \in {<<>>, catalog[1].pattern}, m2 \in {<<>>, catalog[2].pattern}}

DriverInit ==
    /\ \E catalog \in {DaCatalog, PreloaderCatalog} :
          /\ ppatch = catalog[1]
          /\ pbuf \in DriverBuffers(catalog)
    /\ pinit = pbuf
    /\ phist = <<>>

DriverNext == DoPatch

----------------------------------------------------------------------------
(* The patcher: fuzzy_search_thumb2 *)

\* What thumb2_disasm_count(&slice[offset..], 1) gives at an offset: one
\* instruction with its mnemonic and size, or nothing ("bad").
Insns == {[m |-> "A", size |-> 2], [m |-> "B", size |-> 4], [m |-> "bad", size |-> 2]}
\* The templates: a mnemonic with operands, or "??" for any instruction.
Templates == {"A", "B", "??"}

\* matcher(m, op, want)
Matches(insn, want) == want = "??" \/ insn.m = want

\* offset, the sum of the sizes of the items passed
RECURSIVE OffsetOf(_, _)
OffsetOf(code, i) == IF i <= 1 THEN 0 ELSE OffsetOf(code, i - 1) + code[i - 1].size

FuzzyRunning == [k |-> "running", range |-> <<>>]
FuzzyOk(from, to) == [k |-> "Ok", range |-> <<from, to>>]
FuzzyErr == [k |-> "PatternNotFound", range |-> <<>>]

\* else if n != 0 { n = 0; start = None; }
Restart(insn, idx) == [n |-> 0, start |-> <<>>]

\* if matcher(m, op, want)? { .. n += 1; if n == split_instr.len() { return Ok(..) } }
FuzzyMatch ==
    /\ fres = FuzzyRunning
    /\ fidx <= Len(fcode)
    /\ fcode[fidx].m # "bad"
    /\ Matches(fcode[fidx], fpat[fn + 1])
    /\ LET st == IF fn = 0 THEN <<OffsetOf(fcode, fidx)>> ELSE fstart
       IN  IF fn + 1 = Len(fpat)
           THEN /\ fres' = FuzzyOk(st[1], OffsetOf(fcode, fidx) + fcode[fidx].size)
                /\ fn' = fn + 1
                /\ fstart' = st
                /\ fidx' = fidx
           ELSE /\ fn' = fn + 1
                /\ fstart' = st
                /\ fidx' = fidx + 1
                /\ fres' = fres
    /\ UNCHANGED <<fcode, fpat, coreVars, anaVars, daVars, shakeVars>>

\* else if n != 0 { n = 0; start = None; }  offset += size
FuzzyMismatch ==
    /\ fres = FuzzyRunning
    /\ fidx <= Len(fcode)
    /\ fcode[fidx].m # "bad"
    /\ ~Matches(fcode[fidx], fpat[fn + 1])
    /\ LET r == IF fn # 0 THEN Restart(fcode[fidx], fidx) ELSE [n |-> fn, start |-> fstart]
       IN  fn' = r.n /\ fstart' = r.start
    /\ fidx' = fidx + 1
    /\ UNCHANGED <<fcode, fpat, fres, coreVars, anaVars, daVars, shakeVars>>

\* no instruction at the offset: offset += 2
FuzzySkip ==
    /\ fres = FuzzyRunning
    /\ fidx <= Len(fcode)
    /\ fcode[fidx].m = "bad"
    /\ fidx' = fidx + 1
    /\ UNCHANGED <<fcode, fpat, fn, fstart, fres, coreVars, anaVars, daVars, shakeVars>>

\* the loop ends: Err(Error::PatternNotFound)
FuzzyEnd ==
    /\ fres = FuzzyRunning
    /\ fidx > Len(fcode)
    /\ fres' = FuzzyErr
    /\ UNCHANGED <<fcode, fpat, fidx, fn, fstart, coreVars, anaVars, daVars, shakeVars>>

FuzzyCodes == UNION {[1..n -> Insns] : n \in 0..MaxInsns}
FuzzyPatterns == UNION {[1..n -> Templates] : n \in 1..MaxTemplates}

FuzzyIdle ==
    /\ fcode = <<>>
    /\ fpat = <<"??">>
    /\ fidx = 1
    /\ fn = 0
    /\ fstart = <<>>
    /\ fres = FuzzyErr

FuzzyInit ==
    /\ fcode \in FuzzyCodes
    /\ fpat \in FuzzyPatterns
    /\ fidx = 1
    /\ fn = 0
    /\ fstart = <<>>
    /\ fres = FuzzyRunning

FuzzyNext == FuzzyMatch \/ FuzzyMismatch \/ FuzzySkip \/ FuzzyEnd


----------------------------------------------------------------------------
(* The analyzer: analyze_function over decoded instructions *)

\* An instruction as far as the analyzer looks at it: the opcode (with
\* "push_lr" for a PUSH with LR in its list, "pop_pc" for a POP with PC and
\* "bx_lr" for BX LR), the condition, and for B, CBZ and CBNZ the index of the
\* instruction at the target, <<>> if the target's offset is no instruction's.
Insn(op, cond, target) == [op |-> op, cond |-> cond, target |-> target]
\* self.code[idx], idx counted from 0
At(idx) == acode[idx + 1]
is_prologue(c) == c.op = "push_lr"
is_epilogue(c) == c.op = "pop_pc"

\* BasicBlockRange::new(start, end)
BasicBlockRange(start, end) == [start |-> start, end |-> end]

AnaErr(e) == [k |-> "Err", blocks |-> <<>>, e |-> e, seen |-> {}]
\* A slice index out of range or an assertion that fails.
AnaPanic(why) == [k |-> "panic", blocks |-> <<>>, e |-> why, seen |-> {}]

\* let mut start = 0; for code in self.code[..i].iter().rev() { if is_prologue(code) .. }
FunctionStart(i) ==
    LET pro == {j \in 0..(i - 1) : is_prologue(At(j))}
    IN  IF pro = {} THEN 0 ELSE CHOOSE j \in pro : \A q \in pro : q <= j

\* blocks.iter().position(|b| b.start == s), 0 for None
BlockAt(blocks, s) ==
    LET hits == {k \in 1..Len(blocks) : blocks[k].start = s}
    IN  IF hits = {} THEN 0 ELSE CHOOSE k \in hits : \A q \in hits : k <= q
\* blocks.iter_mut().find(|b| b.end == idx), 0 for None
BlockEndingAt(blocks, idx) ==
    LET hits == {k \in 1..Len(blocks) : blocks[k].end = idx}
    IN  IF hits = {} THEN 0 ELSE CHOOSE k \in hits : \A q \in hits : k <= q

\* fixup_block.end = block_start
FixupEnd(block_start) == block_start

\* if !blocks.iter().any(|b| b.start == target) { push target; if conditional { push idx + 1 } }
Push(st, c, idx, target) ==
    IF BlockAt(st.blocks, target) # 0 THEN st
    ELSE LET s1 == [st EXCEPT !.queue = Append(@, target),
                              !.blocks = Append(@, BasicBlockRange(target, Len(acode)))]
         IN  IF (c.cond # "AL" \/ c.op = "cbz") /\ BlockAt(s1.blocks, idx + 1) = 0
             THEN [s1 EXCEPT !.queue = Append(@, idx + 1),
                             !.blocks = Append(@, BasicBlockRange(idx + 1, Len(acode)))]
             ELSE s1

\* Opcode::B | Opcode::CBZ | Opcode::CBNZ at idx in the block block_idx
Branch(st, start, block_idx, idx) ==
    LET c == At(idx) IN
    IF c.target = <<>> THEN [st EXCEPT !.res = AnaErr("MapOffsetToIndex")]
    ELSE LET target == c.target[1]
             block_start == st.blocks[block_idx].start
             fix == BlockEndingAt(st.blocks, idx)
             b1 == IF fix # 0 THEN [st.blocks EXCEPT ![fix].end = FixupEnd(block_start)]
                   ELSE st.blocks
             b2 == [b1 EXCEPT ![block_idx].end = idx]
             s2 == [st EXCEPT !.blocks = b2, !.seen = @ \cup {idx}]
         IN  IF c.cond = "AL" /\ target + 5 > Len(acode)
             THEN [s2 EXCEPT !.res = AnaPanic("self.code[target..target + 5]")]
             ELSE IF c.cond = "AL" /\ \E j \in target..(target + 4) :
                                          is_prologue(At(j)) /\ j # start
             THEN s2
             ELSE Push(s2, c, idx, target)

\* for code in self.code[code_start..].iter() { .. }, from the instruction idx on
RECURSIVE Walk(_, _, _, _, _)
Walk(st, start, block_idx, code_start, idx) ==
    IF idx >= Len(acode) THEN st
    ELSE IF idx > code_start /\ BlockAt(st.blocks, idx) # 0
    THEN [st EXCEPT !.blocks[block_idx].end = idx - 1]
    ELSE IF idx > start /\ is_prologue(At(idx))
    THEN [st EXCEPT !.res = AnaErr("Overrun")]
    ELSE IF At(idx).op \in {"b", "cbz"} THEN Branch(st, start, block_idx, idx)
    ELSE IF is_epilogue(At(idx)) \/ At(idx).op = "bx_lr"
    THEN [st EXCEPT !.blocks[block_idx].end = idx]
    ELSE Walk(st, start, block_idx, code_start, idx + 1)

\* while let Some(code_start) = queue.pop() { .. }
RECURSIVE Drain(_, _)
Drain(st, start) ==
    IF st.queue = <<>> \/ st.res.k # "running" THEN st
    ELSE LET code_start == st.queue[Len(st.queue)]
             popped == [st EXCEPT !.queue = SubSeq(@, 1, Len(@) - 1)]
             block_idx == BlockAt(st.blocks, code_start)
         IN  IF block_idx = 0 THEN [popped EXCEPT !.res = AnaErr("InvalidBlockIndex")]
             ELSE Drain(Walk(popped, start, block_idx, code_start, code_start), start)

\* blocks.sort_unstable(); the assertions; the blocks as ranges of self.code
Finish(st) ==
    LET sorted == SortSeq(st.blocks, LAMBDA x, y : x.start < y.start) IN
    IF \E k \in 1..Len(sorted) : sorted[k].end = Len(acode)
    THEN AnaPanic("assert!(!blocks.iter().any(|b| b.end == self.code.len()))")
    ELSE IF Len(sorted) = 0 \/ Len(st.queue) # 0 THEN AnaPanic("assert")
    ELSE IF \E k \in 1..Len(sorted) : sorted[k].start > sorted[k].end + 1
    THEN AnaPanic("self.code[b.start..=b.end]")
    ELSE [k |-> "Ok", blocks |-> sorted, e |-> "", seen |-> st.seen]

analyze_function(i) ==
    LET start == FunctionStart(i)
        st0 == [queue |-> <<start>>,
                blocks |-> <<BasicBlockRange(start, Len(acode))>>,
                seen |-> {},
                res |-> [k |-> "running"]]
        st == Drain(st0, start)
    IN  IF st.res.k # "running" THEN st.res ELSE Finish(st)

AnaNone == [k |-> "none", blocks |-> <<>>, e |-> "", seen |-> {}]

Analyze ==
    /\ ares = AnaNone
    /\ ares' = analyze_function(ai)
    /\ UNCHANGED <<acode, ai, coreVars, fuzzyVars, daVars, shakeVars>>

\* The instructions of a buffer of n instructions; the buffers analyzed hold
\* at most one branch, and i is the index of one of their instructions, as
\* find_string_ref gives it.
AnaInsns(n) ==
    {Insn(op, "AL", <<>>) : op \in {"other", "push_lr", "pop_pc", "bx_lr"}}
    \cup {Insn("b", cond, <<t>>) : cond \in {"AL", "NE"}, t \in 0..(n - 1)}
    \cup {Insn("cbz", "AL", <<t>>) : t \in 0..(n - 1)}
    \cup {Insn("b", "NE", <<>>)}
AnaBranches(c) == {j \in 1..Len(c) : c[j].op \in {"b", "cbz"}}
AnaCodes ==
    UNION {{c \in [1..n -> AnaInsns(n)] : Cardinality(AnaBranches(c)) <= 1}
              : n \in 1..MaxCode}

AnaIdle ==
    /\ acode = <<>>
    /\ ai = 0
    /\ ares = [k |-> "idle", blocks |-> <<>>, e |-> "", seen |-> {}]

AnaInit ==
    /\ acode \in AnaCodes
    /\ ai \in 0..(Len(acode) - 1)
    /\ ares = AnaNone

AnaNext == Analyze


----------------------------------------------------------------------------
(* The DA parser: DA::parse, Entry::parse, Region::parse and the accessors *)

\* size_of::<ll::Header>(): 18 + 14 + 64 + 4 + 4 + 4
HeaderSize == 108
\* size_of::<ll::Entry>() and size_of::<ll::LoadRegion>()
EntrySize == 20
LoadRegionSize == 20
\* let start = position + (i * 0xdc)
EntryStride == 220

\* u32 values are halfword pairs; file positions and lengths are below 2^16.
U32Small(n) == U32(0, n)
U32Lt(a, n) == a.hi = 0 /\ a.lo < n
U32Gt(a, n) == a.hi > 0 \/ a.lo > n
\* a + b does not fit in 32 bits
U32AddOverflows(a, b) == a.hi + b.hi + ((a.lo + b.lo) \div 65536) >= 65536
U32Add(a, b) == U32((a.hi + b.hi + ((a.lo + b.lo) \div 65536)) % 65536, (a.lo + b.lo) % 65536)

DaErr(e) == [k |-> "Err", entries |-> <<>>, e |-> e]
\* A slice index out of range or an arithmetic overflow.
DaPanic(why) == [k |-> "panic", entries |-> <<>>, e |-> why]
DaOk(entries) == [k |-> "Ok", entries |-> entries, e |-> ""]

\* LLParser::parse(&data[at..]): the structure of `size` bytes is decoded
\* from the bytes at `at`; the slice panics when `at` is past the end of the
\* file, decoding fails when fewer than `size` bytes are left.
LLParse(at, size) ==
    IF at > dfile.len THEN "panic"
    ELSE IF at + size > dfile.len THEN "Err"
    ELSE "Ok"

\* impl LLParser for Header: validate
HeaderValidate(h) ==
    IF ~h.magic THEN "InvalidHeaderMagic"
    ELSE IF ~h.padding THEN "InvalidHeaderHeuristics"
    ELSE IF h.unknown # 4 THEN "InvalidHeaderHeuristics"
    ELSE IF ~h.ty THEN "InvalidHeaderType"
    ELSE "Ok"
\* impl LLParser for Entry: validate
EntryValidate(e) ==
    IF e.magic # 56026 THEN "InvalidEntryMagic"
    ELSE IF e.region_count = 0 THEN "InvalidEntryHeuristics"
    ELSE "Ok"
\* impl LLParser for LoadRegion: validate
LoadRegionValidate(r) ==
    IF U32Lt(r.start, 256) THEN "InvalidRegionStart"
    ELSE IF U32Lt(r.len, 256) THEN "InvalidRegionSize"
    ELSE IF r.base = U32(0, 0) THEN "InvalidRegionSize"
    ELSE "Ok"

\* Region::parse: the region holds data[start..start + len]; the sum is made
\* in u32 (a build with overflow checks panics at the sum, one without wraps
\* to an end below start and panics at the slice).
RegionParse(r) ==
    IF LoadRegionValidate(r) # "Ok" THEN DaErr(LoadRegionValidate(r))
    ELSE IF U32AddOverflows(r.start, r.len) THEN DaPanic("ll.start + ll.len")
    ELSE IF U32Gt(U32Add(r.start, r.len), dfile.len) THEN DaPanic("data[ll.start..end]")
    ELSE DaOk(<<[start |-> r.start.lo, len |-> r.len.lo,
                 signature_len |-> r.sig_len, base |-> r.base]>>)

\* Entry::parse, the regions from the j-th on; acc holds the regions parsed
RECURSIVE EntryRegions(_, _, _, _)
EntryRegions(e, position, j, acc) ==
    IF j >= e.region_count THEN DaOk(acc)
    ELSE LET at == position + j * LoadRegionSize
             ll == LLParse(at, LoadRegionSize)
         IN  IF ll = "panic" THEN DaPanic("data[position + i * 20..]")
             ELSE IF ll = "Err" THEN DaErr("Bincode")
             ELSE LET r == RegionParse(e.regions[j + 1])
                  IN  IF r.k # "Ok" THEN r
                      ELSE EntryRegions(e, position, j + 1, acc \o r.entries)

\* Entry::parse(data, position, ll)
EntryParse(e, position) ==
    IF EntryValidate(e) # "Ok" THEN DaErr(EntryValidate(e))
    ELSE LET rs == EntryRegions(e, position, 0, <<>>)
         IN  IF rs.k # "Ok" THEN rs
             ELSE DaOk(<<[hw_code |-> e.hw_code, regions |-> rs.entries]>>)

\* DA::parse, the entries from the i-th on; acc holds the entries parsed
RECURSIVE DAEntries(_, _, _)
DAEntries(position, i, acc) ==
    IF i >= dfile.header.count THEN DaOk(acc)
    ELSE LET start == position + i * EntryStride
             ll == LLParse(start, EntrySize)
         IN  IF ll = "panic" THEN DaPanic("data[start..]")
             ELSE IF ll = "Err" THEN DaErr("Bincode")
             ELSE LET e == EntryParse(dfile.entries[i + 1], start + EntrySize)
                  IN  IF e.k # "Ok" THEN e
                      ELSE DAEntries(position, i + 1, acc \o e.entries)

\* DA::parse(data, position, ll)
DAParse(position) ==
    IF HeaderValidate(dfile.header) # "Ok" THEN DaErr(HeaderValidate(dfile.header))
    ELSE IF ~dfile.header.nul THEN DaErr("Cstr")
    ELSE DAEntries(position, 0, <<>>)

\* The header is decoded from the start of the file and handed to DA::parse
\* with the position after it.
parse_da ==
    IF LLParse(0, HeaderSize) # "Ok" THEN DaErr("Bincode")
    ELSE DAParse(HeaderSize)

DaNone == [k |-> "none", entries |-> <<>>, e |-> ""]

DaParse ==
    /\ dres = DaNone
    /\ dres' = parse_da
    /\ UNCHANGED <<dfile, dacc, coreVars, fuzzyVars, anaVars, shakeVars>>

\* Region::code / Region::code_mut: &self.data[..len - self.signature_len as usize];
\* the difference is made in usize (a build with overflow checks panics at
\* it, one without wraps and panics at the slice).
RegionCode(r) ==
    IF U32Gt(r.signature_len, r.len) THEN [k |-> "panic", n |-> 0]
    ELSE [k |-> "Ok", n |-> r.len - r.signature_len.lo]
\* Region::signature / Region::signature_mut: &self.data[self.data.len() - self.signature_len as usize..]
RegionSignature(r) ==
    IF U32Gt(r.signature_len, r.len) THEN [k |-> "panic", n |-> 0]
    ELSE [k |-> "Ok", n |-> r.signature_len.lo]

DaCode ==
    /\ dres.k = "Ok"
    /\ Len(dacc) < MaxAccess
    /\ \A k \in 1..Len(dacc) : dacc[k].k # "panic"
    /\ \E i \in 1..Len(dres.entries) : \E j \in 1..Len(dres.entries[i].regions) :
           dacc' = Append(dacc, RegionCode(dres.entries[i].regions[j]))
    /\ UNCHANGED <<dfile, dres, coreVars, fuzzyVars, anaVars, shakeVars>>

DaSignature ==
    /\ dres.k = "Ok"
    /\ Len(dacc) < MaxAccess
    /\ \A k \in 1..Len(dacc) : dacc[k].k # "panic"
    /\ \E i \in 1..Len(dres.entries) : \E j \in 1..Len(dres.entries[i].regions) :
           dacc' = Append(dacc, RegionSignature(dres.entries[i].regions[j]))
    /\ UNCHANGED <<dfile, dres, coreVars, fuzzyVars, anaVars, shakeVars>>

\* The load regions of the files parsed: the region of the DA of the
\* example (start 0x100, length 0x200, base 0x2007000, signature 0x40), and
\* regions that differ from it in one field.
DaRegion(start, len, base, sig_len) ==
    [start |-> start, len |-> len, base |-> base, sig_len |-> sig_len]
GoodRegion == DaRegion(U32Small(256), U32Small(512), U32(512, 28672), U32Small(64))
DaRegions ==
    {GoodRegion,
     [GoodRegion EXCEPT !.start = U32Small(255)],
     [GoodRegion EXCEPT !.len = U32Small(255)],
     [GoodRegion EXCEPT !.base = U32(0, 0)],
     [GoodRegion EXCEPT !.start = U32(65535, 65280)],
     [GoodRegion EXCEPT !.sig_len = U32Small(0)],
     [GoodRegion EXCEPT !.sig_len = U32Small(513)]}
DaRegionSeqs == UNION {[1..n -> DaRegions] : n \in 0..MaxRegions}
DaEntries ==
    {[magic |-> 56026, hw_code |-> 25970, region_count |-> Len(rs), regions |-> rs]
        : rs \in DaRegionSeqs}
    \cup {[magic |-> 0, hw_code |-> 25970, region_count |-> 1, regions |-> <<GoodRegion>>]}
DaHeader(magic, padding, unknown, ty, nul, count) ==
    [magic |-> magic, padding |-> padding, unknown |-> unknown, ty |-> ty,
     nul |-> nul, count |-> count]
DaBadHeaders ==
    {DaHeader(FALSE, TRUE, 4, TRUE, TRUE, 1), DaHeader(TRUE, FALSE, 4, TRUE, TRUE, 1),
     DaHeader(TRUE, TRUE, 0, TRUE, TRUE, 1), DaHeader(TRUE, TRUE, 4, FALSE, TRUE, 1),
     DaHeader(TRUE, TRUE, 4, TRUE, FALSE, 1)}
\* File lengths: shorter than the header; the header, the first entry and
\* its regions; up to the start of the second entry; the tables of two
\* entries but not the regions' data; everything.
DaLens == {100, 200, 328, 500, 1024}
DaFiles ==
    {[len |-> l, header |-> DaHeader(TRUE, TRUE, 4, TRUE, TRUE, Len(es)), entries |-> es]
        : l \in DaLens, es \in UNION {[1..n -> DaEntries] : n \in 0..MaxEntries}}
    \cup {[len |-> l, header |-> h, entries |-> <<CHOOSE e \in DaEntries : e.regions = <<GoodRegion>> /\ e.magic = 56026>>]
             : l \in DaLens, h \in DaBadHeaders}

DaIdle ==
    /\ dfile = [len |-> 0, header |-> DaHeader(FALSE, TRUE, 4, TRUE, TRUE, 0), entries |-> <<>>]
    /\ dres = [k |-> "idle", entries |-> <<>>, e |-> ""]
    /\ dacc = <<>>

DaInit ==
    /\ dfile \in DaFiles
    /\ dres = DaNone
    /\ dacc = <<>>

DaNext == DaParse \/ DaCode \/ DaSignature

----------------------------------------------------------------------------
(* The handshake of the host with the BootROM or the preloader *)

\* const HANDSHAKE: [u8; 3] = [0x0a, 0x50, 0x05]
HANDSHAKE == <<10, 80, 5>>
\* port.write_u8(0xa0)
SYNC == 160
\* port.read_u8()? == 0x5f
SYNC_REPLY == 95
\* !byte of a u8
NotU8(b) == 255 - b

KEv(op, b) == [op |-> op, b |-> b, ok |-> TRUE]
KRunning == [k |-> "running"]
KOk == [k |-> "Ok"]
KErr == [k |-> "Err"]

\* call()?: the call on the port fails and handshake() returns the error
KFail(evs) ==
    /\ klog' = klog \o [i \in 1..Len(evs) |->
                            IF i = Len(evs) THEN [evs[i] EXCEPT !.ok = FALSE] ELSE evs[i]]
    /\ kpc' = "done"
    /\ kres' = KErr
    /\ UNCHANGED <<ki, kwrong>>

\* if port.read_u8()? == 0x5f { break; }
\* (variant: the loop ends on any answer)
SyncedAny(b) == TRUE
Synced(b) == b = SYNC_REPLY

\* What a device answers to 0xa0, and to a byte of HANDSHAKE.
SyncReplies == {SYNC_REPLY, SYNC, 0}
FixedReplies(byte) == {NotU8(byte), 0}

\* port.write_u8(0xa0)?; port.flush()?
ShakeSyncWrite ==
    /\ kpc = "sync"
    /\ \/ /\ klog' = klog \o <<KEv("write", SYNC), KEv("flush", 0)>>
          /\ kpc' = "sync_read"
          /\ UNCHANGED <<ki, kwrong, kres>>
       \/ KFail(<<KEv("write", SYNC)>>)
       \/ KFail(<<KEv("write", SYNC), KEv("flush", 0)>>)
    /\ UNCHANGED <<coreVars, fuzzyVars, anaVars, daVars>>

\* if port.read_u8()? == 0x5f { break; }
ShakeSyncRead ==
    /\ kpc = "sync_read"
    /\ \/ \E b \in SyncReplies :
             /\ b # SYNC_REPLY => kwrong < MaxSync
             /\ klog' = Append(klog, KEv("read", b))
             /\ kwrong' = IF b = SYNC_REPLY THEN kwrong ELSE kwrong + 1
             /\ kpc' = IF Synced(b) THEN "fixed" ELSE "sync"
             /\ UNCHANGED <<ki, kres>>
       \/ KFail(<<KEv("read", 0)>>)
    /\ UNCHANGED <<coreVars, fuzzyVars, anaVars, daVars>>

\* write_and_check: self.write_all(&[byte])?
ShakeFixedWrite ==
    /\ kpc = "fixed"
    /\ \/ /\ klog' = Append(klog, KEv("write", HANDSHAKE[ki]))
          /\ kpc' = "fixed_read"
          /\ UNCHANGED <<ki, kwrong, kres>>
       \/ KFail(<<KEv("write", HANDSHAKE[ki])>>)
    /\ UNCHANGED <<coreVars, fuzzyVars, anaVars, daVars>>

\* write_and_check: self.read_exact(&mut buf)?; Ok(buf == expected), and the
\* loop drops the bool
ShakeFixedRead ==
    /\ kpc = "fixed_read"
    /\ \/ \E b \in FixedReplies(HANDSHAKE[ki]) :
             /\ klog' = Append(klog, KEv("read", b))
             /\ ki' = ki + 1
             /\ kpc' = IF ki = Len(HANDSHAKE) THEN "drain" ELSE "fixed"
             /\ UNCHANGED <<kwrong, kres>>
       \/ KFail(<<KEv("read", 0)>>)
    /\ UNCHANGED <<coreVars, fuzzyVars, anaVars, daVars>>

\* sleep(200 ms); port.clear(ClearBuffer::All)?; Ok(())
ShakeDrain ==
    /\ kpc = "drain"
    /\ \/ /\ klog' = Append(klog, KEv("clear", 0))
          /\ kpc' = "done"
          /\ kres' = KOk
          /\ UNCHANGED <<ki, kwrong>>
       \/ KFail(<<KEv("clear", 0)>>)
    /\ UNCHANGED <<coreVars, fuzzyVars, anaVars, daVars>>

ShakeIdle ==
    /\ kpc = "done"
    /\ ki = 1
    /\ kwrong = 0
    /\ kres = KRunning
    /\ klog = <<>>

ShakeInit ==
    /\ kpc = "sync"
    /\ ki = 1
    /\ kwrong = 0
    /\ kres = KRunning
    /\ klog = <<>>

ShakeNext ==
    \/ ShakeSyncWrite \/ ShakeSyncRead \/ ShakeFixedWrite \/ ShakeFixedRead \/ ShakeDrain

ToolIdle == FuzzyIdle /\ AnaIdle /\ DaIdle /\ ShakeIdle

----------------------------------------------------------------------------
(* The RPC session *)

RpcInit ==
    /\ hpc = "start"
    /\ hres = NoRes
    /\ up = NoUp
    /\ dl = NoDl
    /\ last = NoLast
    /\ opsLeft = MaxOps
    /\ hread = 0
    /\ dpc = "boot"
    /\ inBrom \in BOOLEAN
    /\ dmem = [a \in 0..(MemSize - 1) |-> 0]
    /\ h2d = <<>>
    /\ d2h = <<>>
    /\ reqs = <<>>
    /\ resps = <<>>
    /\ taken = 0

RpcNext ==
    \/ HostStart
    \/ HostReadFail
    \/ \E a \in UploadAddrs, d \in Payloads : HostUploadBegin(a, d)
    \/ HostUploadWriteResp
    \/ HostUploadFlushResp
    \/ \E a \in UploadAddrs, n \in DownloadLens : HostDownloadBegin(a, n)
    \/ HostDownloadResp
    \/ HostHook
    \/ HostHookResp
    \/ \E a \in UploadAddrs, r \in {<<>>, <<1>>} : HostJump(a, r)
    \/ HostJumpResp
    \/ \E m \in ReplMsgs : HostRepl(m)
    \/ HostReplResp
    \/ HostFinish
    \/ DevSendAck
    \/ DevReadAck
    \/ DevServe
    \/ GarbleToDevice
    \/ GarbleToHost

----------------------------------------------------------------------------
(* Properties of the RPC session *)

\* The response the command loop gives to request q when it answers it at all.
Answers(q, r) ==
    \/ r = RspNack("Unreachable")
    \/ q.k \in {"Ack", "Write", "FlushCache", "Reset", "Hook"} /\ r = RspAck
    \/ q.k = "Read" /\ r.k = "Read" /\ Len(r.data) = q.size
    \/ q.k = "Return" /\ r = RspNack("NotSupported")

UpActive == hpc \in {"up_w", "up_f"}
UpSeg ==
    IF UpActive THEN SubSeq(reqs, up.start + 1, Len(reqs))
    ELSE IF last.op = "upload" THEN SubSeq(reqs, last.start + 1, last.end)
    ELSE <<>>
UpBase == IF UpActive THEN up.start ELSE last.start
UpAddr == IF UpActive THEN up.addr ELSE last.addr
UpData == IF UpActive THEN up.data ELSE last.data

\* C2 (as written): every FlushCache of an upload is FlushCache{addr + i*K, K}.
C2_FlushWholeChunk ==
    \A p \in 1..Len(UpSeg) :
        UpSeg[p].k = "FlushCache" => UpSeg[p].size = RW_BUFFER_SIZE

\* C2 (amended): in an upload the Write of chunk i is followed by
\* FlushCache{addr + i*K, n} with n the byte count of chunk i (K for a full
\* chunk, L mod K for the trailing partial one); the FlushCache is sent only
\* after the device's Ack of that Write was read and before the next Write.
C2_FlushAfterAck ==
    \A p \in 1..Len(UpSeg) :
        /\ p % 2 = 1 => UpSeg[p].k = "Write"
        /\ p % 2 = 0 =>
              /\ UpSeg[p].k = "FlushCache"
              /\ UpSeg[p].addr = UpAddr + ((p \div 2) - 1) * RW_BUFFER_SIZE
              /\ UpSeg[p].addr = UpSeg[p - 1].addr
              /\ UpSeg[p].size = Len(UpSeg[p - 1].data)
              /\ hread >= UpBase + p - 1
              /\ Len(resps) >= UpBase + p - 1
              /\ resps[UpBase + p - 1] = RspAck

\* C2 witness: an upload with a trailing partial chunk after a full one is done.
C2_Witness ==
    /\ last.op = "upload"
    /\ Len(last.data) > RW_BUFFER_SIZE
    /\ Len(last.data) % RW_BUFFER_SIZE # 0
    /\ last.end = last.start + 2 * ((Len(last.data) \div RW_BUFFER_SIZE) + 1)

\* The Write frames among the upload's requests, in order.
UpWrites == [i \in 1..((Len(UpSeg) + 1) \div 2) |-> UpSeg[2 * i - 1]]

\* C3: upload(addr, data) sends the Writes in increasing i, the i-th carrying
\* data[i*K, min((i+1)*K, L)) to addr + i*K; a finished upload has sent exactly
\* ceil(L/K) of them, one trailing partial chunk iff K does not divide L, and
\* no frame at all when L = 0.
C3_Chunking ==
    LET L == Len(UpData)
        K == RW_BUFFER_SIZE
    IN  /\ \A i \in 0..(Len(UpWrites) - 1) :
              /\ UpWrites[i + 1].k = "Write"
              /\ UpWrites[i + 1].addr = UpAddr + i * K
              /\ Len(UpWrites[i + 1].data) = (IF (i + 1) * K <= L THEN K ELSE L - i * K)
              /\ \A n \in 1..Len(UpWrites[i + 1].data) :
                    UpWrites[i + 1].data[n] = UpData[i * K + n]
        /\ Len(UpWrites) * K < L + K
        /\ (~UpActive /\ last.op = "upload") =>
              /\ Len(UpWrites) = (L + K - 1) \div K
              /\ Cardinality({i \in 1..Len(UpWrites) : Len(UpWrites[i].data) < K})
                    = (IF L % K # 0 THEN 1 ELSE 0)
              /\ (L = 0 => last.end = last.start)

\* C3 witness: finished uploads of a length K does not divide.
C3_Witness ==
    /\ last.op = "upload"
    /\ Len(last.data) = 2 * RW_BUFFER_SIZE + 1
    /\ Len(UpWrites) = 3

\* C4: a Nack read in reply to a Write or a FlushCache of an upload ends the
\* upload with an error that names the chunk, and after an error the host
\* sends no further frame.
C4_NackAborts ==
    [][ /\ ( /\ UpActive
             /\ hread' = hread + 1
             /\ Head(d2h).k = "Nack" )
           => /\ hpc' = "err"
              /\ hres'.ok = FALSE
              /\ hres'.chunk = up.i
              /\ hres'.msg = (IF hpc = "up_w" THEN "Device didn't accept chunk"
                                              ELSE "Device didn't flush cache at chunk")
              /\ reqs' = reqs
        /\ hpc = "err" => (hpc' = "err" /\ reqs' = reqs /\ hres' = hres)
      ]_vars

\* C4 witness: the FlushCache of the second chunk was refused.
C4_Witness ==
    /\ hpc = "err"
    /\ hres.msg = "Device didn't flush cache at chunk"
    /\ hres.chunk = 1
    /\ Len(reqs) = up.start + 4

\* C5: the device speaks first and sends Ack; the host answers Ack only on
\* reading an Ack; the device enters its command loop only on reading an Ack;
\* a side that reads anything else, or whose read fails, ends the session
\* there (host: error, device: halt) and no command passes through it.
C5_Handshake ==
    [][ /\ dpc = "boot" /\ dpc' # "boot"
           => dpc' = "wait_ack" /\ d2h' = Append(d2h, MsgAck)
        /\ hpc = "start" /\ hpc' # "start"
           => \/ /\ hpc' = "pick"
                 /\ d2h # <<>> /\ Head(d2h) = MsgAck
                 /\ h2d' = Append(h2d, MsgAck)
              \/ /\ hpc' = "err"
                 /\ hres'.ok = FALSE
                 /\ h2d' = h2d
        /\ dpc = "wait_ack" /\ dpc' # "wait_ack"
           => \/ dpc' = "loop" /\ h2d # <<>> /\ Head(h2d) = MsgAck
              \/ dpc' = "halted"
        /\ hpc \in {"start", "err"} => reqs' = reqs /\ hpc' \in {hpc, "pick", "err"}
        /\ dpc \in {"boot", "wait_ack", "halted"} => taken' = taken /\ resps' = resps
        /\ hpc = "err" => hpc' = "err"
        /\ dpc = "halted" => dpc' = "halted"
      ]_vars

\* C5 witness: the host's Ack was damaged on the way, the device halted, and
\* the host's first command stays unanswered.
C5_Witness ==
    /\ dpc = "halted"
    /\ taken = 0
    /\ Len(reqs) = 1
    /\ hpc = "err"

----------------------------------------------------------------------------
(* Framing *)

\* The write_data calls that reached the transport.
Written == SelectSeq(wlog, LAMBDA w : w.ok)

\* The frames of ws[i..] as the bytes of a stream: a 4-byte big-endian length
\* of the body, then the body.
RECURSIVE FramesFrom(_, _)
FramesFrom(ws, i) ==
    IF i > Len(ws) THEN <<>>
    ELSE <<0, 0, Len(ws[i].bytes) \div 256, Len(ws[i].bytes) % 256>>
           \o ws[i].bytes \o FramesFrom(ws, i + 1)

\* C6: every frame on the transport is the 4-byte big-endian byte count of
\* its body followed by exactly the body; the i-th read_data consumes exactly
\* the 4 + length bytes of the i-th frame and stores the body unchanged,
\* whether deserialization then succeeds or not, so what is left in flight
\* starts on a frame boundary; read as the type it was written as, the body
\* gives back the value written.
C6_FramingRoundTrip ==
    /\ stream = FramesFrom(Written, 1)
    /\ Len(rlog) <= Len(Written)
    /\ \A i \in 1..Len(rlog) :
          /\ rlog[i].size = Len(Written[i].bytes)
          /\ rlog[i].n = 4 + Len(Written[i].bytes)
          /\ rlog[i].body = Written[i].bytes
          /\ rlog[i].typ = Written[i].typ =>
                rlog[i].ok /\ rlog[i].v = Written[i].v
    /\ wire = FramesFrom(Written, Len(rlog) + 1)

\* A frame whose deserialization failed was read, and the frame after it was
\* read and deserialized.
C6_Witness ==
    /\ Len(rlog) = 2
    /\ ~rlog[1].ok
    /\ rlog[1].size > 0
    /\ rlog[2].ok
    /\ rlog[2].typ = Written[2].typ
    /\ rlog[2].size > 1

\* C7: every request the device loop fails to read or decode is answered with
\* exactly one Nack(Unreachable), and the loop goes on serving.
C7_FailureNacked ==
    \A i \in 1..Len(rlog) :
        ~rlog[i].ok =>
            /\ rlog[i].rsp = <<U32ToBE(2) \o EncResponse(RspNack("Unreachable"))>>
            /\ rlog[i].pc = "loop"

----------------------------------------------------------------------------
(* Interceptor *)

\* The displacement size as documented: 10 bytes when the call site is 2 but not
\* 4 bytes aligned, 8 bytes when it is 4 bytes aligned.
DocDisplacement(t) == IF t % 4 = 2 THEN 10 ELSE 8

\* The last two calls were a successful replace and a successful revert of the
\* same Thumb address.
InstalledThenReverted ==
    /\ hlast.op = "revert"
    /\ hlast.ok
    /\ hlast.prev = <<"replace", hlast.target, TRUE>>

\* C8: after a successful install at T and a revert of T, the bytes in
\* [T', T' + displacement_size) are the bytes that were there before the
\* install, whatever instructions were displaced, a pc-relative LDR included.
C8_RevertRestores ==
    InstalledThenReverted =>
        LET t == unmask_thumb2(hlast.target)
        IN  \A j \in 1..DocDisplacement(t) : mem[t + j - 1] = pre[t][j]

\* C9: the pool's vectors have equal length and no call-site address occurs in
\* it twice, whatever replace and revert calls were made.
C9_OneTrampolinePerAddress ==
    /\ Len(pool_address) = Len(pool_trampoline)
    /\ \A i, j \in 1..Len(pool_address) :
          pool_address[i] = pool_address[j] => i = j

\* C10: an install at T displaces 10 bytes when T' is 2 but not 4 bytes
\* aligned and 8 bytes when T' is 4 bytes aligned, and the trampoline jumps
\* back to (T + displacement_size) | 1.
C10_DisplacementAndJumpBack ==
    (hlast.op = "replace" /\ hlast.ok) =>
        LET t == unmask_thumb2(hlast.target)
        IN  /\ hlast.size = DocDisplacement(t)
            /\ hlast.jump_address = Or1(hlast.target + DocDisplacement(t))

\* C11: a replace or revert of an address with bit 0 clear fails with
\* UnsupportedMode, a revert of a Thumb address that is not in the pool fails
\* with TrampolineNotFound, no other call fails, and a failed call writes no
\* byte of memory and leaves the pool and the allocator as they were.
C11_FailedCallChangesNothing ==
    [][(hops' = hops + 1 /\ hlast'.op \in {"replace", "revert"}) =>
         LET t == hlast'.target
             even == t % 2 = 0
             missing == hlast'.op = "revert" /\ ~even
                          /\ Position(pool_address, unmask_thumb2(t)) = 0
         IN  /\ hlast'.ok = (~even /\ ~missing)
             /\ even => hlast'.err = "UnsupportedMode"
             /\ missing => hlast'.err = "TrampolineNotFound"
             /\ ~hlast'.ok =>
                   /\ mem' = mem
                   /\ pool_address' = pool_address
                   /\ pool_trampoline' = pool_trampoline
                   /\ heap' = heap]_vars

\* A revert of a Thumb address that is not installed has failed while another
\* address is installed.
C11_Witness ==
    /\ hlast.op = "revert"
    /\ ~hlast.ok
    /\ hlast.err = "TrampolineNotFound"
    /\ pool_address # <<>>

\* The trampolines replace has built so far start at 4-byte aligned heap
\* addresses, 64 bytes apart.
IsTrampolineStart(a) == a >= HEAP_BASE /\ a < heap /\ a % 4 = 0

\* C12 as stated: for an installed address original() gives the start of its
\* trampoline with bit 0 set, and reports absence otherwise.
C12_OriginalThumbTagged ==
    hlast.op = "original" =>
        LET i == Position(pool_address, unmask_thumb2(hlast.target))
        IN  IF i = 0 THEN ~hlast.ok
            ELSE /\ hlast.ok
                 /\ hlast.code % 2 = 1
                 /\ unmask_thumb2(hlast.code) = pool_trampoline[i].address

\* C12, amended: for an installed address original() gives the start of the
\* trampoline of its first pool entry as allocated, 4-byte aligned with bit 0
\* clear, where the moved instructions begin; otherwise it reports absence.
C12_OriginalUntagged ==
    hlast.op = "original" =>
        LET t == unmask_thumb2(hlast.target)
            i == Position(pool_address, t)
        IN  IF i = 0 THEN ~hlast.ok /\ (\A k \in 1..Len(pool_address) : pool_address[k] # t)
            ELSE /\ hlast.ok
                 /\ hlast.code = pool_trampoline[i].address
                 /\ hlast.code % 2 = 0
                 /\ IsTrampolineStart(hlast.code)
                 /\ \A k \in 1..(i - 1) : pool_address[k] # t

\* original() was called for the address installed by the call before it.
C12_Witness ==
    /\ hlast.op = "original"
    /\ hlast.ok
    /\ hlast.prev = <<"replace", hlast.target, TRUE>>
    /\ hlast.code = pool_trampoline[Len(pool_trampoline)].address

\* The 64-byte line a byte lies in.
LineOf(a) == a - (a % CACHE_LINE)

\* C13: every flush_cache(addr, size) of a handler cleans each cache line
\* that holds a byte of [addr, addr + size), wherever the range starts.
C13_FlushCoversRange ==
    \A i \in 1..Len(flushes) :
        \A a \in flushes[i].addr..(flushes[i].addr + flushes[i].size - 1) :
            LineOf(a) \in flushes[i].lines

----------------------------------------------------------------------------
(* Boot flows *)

\* The first step of the log that satisfies P, 0 when there is none.
RECURSIVE FirstStepFrom(_, _)
FirstStepFrom(P(_), i) ==
    IF i > Len(blog) THEN 0 ELSE IF P(blog[i]) THEN i ELSE FirstStepFrom(P, i + 1)
LogFrom(i) == IF i = 0 THEN <<>> ELSE SubSeq(blog, i, Len(blog))

\* The steps from the start of run_brom on.
BromSeg ==
    LogFrom(FirstStepFrom(LAMBDA e : e.step = "run_payload" /\ e.addr = BROM_PAYLOAD_ADDR, 1))
BromOrder ==
    <<"run_payload", "start_rpc", "read_preloader", "upload", "jump", "jump_response",
      "close_port", "open_port", "invalidate_ready", "handshake", "workaround">>

\* C14: run_brom sends and starts the RPC payload in SRAM, syncs, uploads the
\* preloader to the preloader base, jumps there with no r0/r1, closes the
\* port, reconnects and goes on in the preloader flow, in this order and each
\* step only after the one before succeeded; a Nack to the Jump ends the run
\* with an error before the port is closed.
C14_BromOrder ==
    \A i \in 1..Len(BromSeg) :
        /\ i <= Len(BromOrder) => BromSeg[i].step = BromOrder[i]
        /\ i < Len(BromSeg) => BromSeg[i].ok
        /\ i = 1 => BromSeg[i].addr = BROM_PAYLOAD_ADDR
        /\ i = 4 => BromSeg[i].addr = preloader_addr
        /\ i = 5 => BromSeg[i].addr = preloader_addr /\ BromSeg[i].args = <<<<>>, <<>>>>
        /\ (i = 6 /\ BromSeg[i].args = <<"Nack">>) =>
              /\ Len(BromSeg) = 6
              /\ ~BromSeg[i].ok
              /\ bres = BErr("Jump failed")
        /\ i = 7 => ~bcrash

\* run_brom went all the way into the preloader flow.
C14_Witness ==
    /\ Len(BromSeg) > Len(BromOrder)
    /\ BromSeg[6].args = <<"Ack">>

\* The steps after the files were read in run_rpc_preloader.
RpcSeg ==
    LET i == FirstStepFrom(LAMBDA e : e.step = "read_files", 1)
    IN  IF i = 0 THEN <<>> ELSE SubSeq(blog, i + 1, Len(blog))

\* C15 as stated: the final Jump of the preloader flow goes to the override
\* if there is one and else to the first file's upload address, with the
\* boot-argument address as r0.
C15_JumpToFirstFile ==
    \A i \in 1..Len(RpcSeg) :
        RpcSeg[i].step = "jump" =>
            /\ RpcSeg[i].addr = IF bcfg.jump_address # <<>> THEN bcfg.jump_address[1]
                                ELSE bcfg.upload_address[1]
            /\ RpcSeg[i].args[1] = <<BOOT_ARG_ADDR>>

\* C15, amended: the final Jump goes to the override if there is one and
\* else to the SoC's DA DRAM address, the address the RPC payload was sent to,
\* with the boot-argument address as r0 and 250 as r1.
C15_JumpToDaAddr ==
    \A i \in 1..Len(RpcSeg) :
        RpcSeg[i].step = "jump" =>
            /\ RpcSeg[i].addr = IF bcfg.jump_address # <<>> THEN bcfg.jump_address[1]
                                ELSE da_dram_addr
            /\ RpcSeg[i].args = <<<<BOOT_ARG_ADDR>>, <<250>>>>
            /\ blog[FirstStepFrom(LAMBDA e : e.step = "run_payload"
                                               /\ e.addr # BROM_PAYLOAD_ADDR, 1)].addr
                 = da_dram_addr
            /\ \A k \in 1..(i - 1) : RpcSeg[k].step # "jump"

\* The Jump went out with no override given and the first file elsewhere.
C15_Witness ==
    /\ bcfg.jump_address = <<>>
    /\ bcfg.upload_address[1] = LkAddr
    /\ Len(RpcSeg) > 0
    /\ RpcSeg[Len(RpcSeg)].step = "jump_response"
    /\ bres.ok

\* C16: in LK mode the files are uploaded one by one to their addresses, then
\* the boot argument to BOOT_ARG_ADDR, then Hook is sent exactly when more
\* than one file was uploaded, then Jump; each step only after the one before
\* succeeded; a reply to Hook that is no Ack ends the run with an error and
\* without a Jump.
C16_LkOrder ==
    bcfg.mode = "Lk" =>
        LET n == Len(bcfg.upload_address)
            h == IF n > 1 THEN 2 ELSE 0
        IN  /\ Len(RpcSeg) <= n + 3 + h
            /\ \A k \in 1..Len(RpcSeg) :
                  /\ k < Len(RpcSeg) => RpcSeg[k].ok
                  /\ k <= n => RpcSeg[k].step = "upload"
                                 /\ RpcSeg[k].addr = bcfg.upload_address[k]
                  /\ k = n + 1 => RpcSeg[k].step = "upload"
                                    /\ RpcSeg[k].addr = BOOT_ARG_ADDR
                  /\ (n > 1 /\ k = n + 2) => RpcSeg[k].step = "hook"
                  /\ (n > 1 /\ k = n + 3) =>
                        /\ RpcSeg[k].step = "hook_response"
                        /\ RpcSeg[k].args # <<"Ack">> =>
                              /\ Len(RpcSeg) = k
                              /\ ~RpcSeg[k].ok
                              /\ ~bres.ok
                  /\ k = n + 1 + h + 1 => RpcSeg[k].step = "jump"
                  /\ k = n + 1 + h + 2 => RpcSeg[k].step = "jump_response"

\* Two files, the hook acknowledged, the Jump sent.
C16_Witness ==
    /\ bcfg.mode = "Lk"
    /\ Len(bcfg.upload_address) = 2
    /\ Len(RpcSeg) >= 6
    /\ RpcSeg[5].args = <<"Ack">>
    /\ RpcSeg[6].step = "jump"

\* The steps of run_da1 after DA2 was looked up: the DA2 upload.
Da2Seg ==
    LET i == FirstStepFrom(LAMBDA e : e.step = "da2", 1)
    IN  IF i = 0 \/ ~blog[i].ok THEN <<>> ELSE SubSeq(blog, i + 1, Len(blog))
\* The number of chunks an image of n bytes is sent in.
ChunksOf(n) == (n + 4095) \div 4096

\* C17: the DA2 upload sends base, length and 0x1000 as big-endian u32 and
\* reads one byte; it then sends the image in consecutive chunks of 0x1000
\* bytes, the last one shorter if the length is no multiple of 0x1000, and
\* reads one byte after each; it reads one last byte. Every step happens only
\* after every byte read before it was 0x5A; another byte ends the run with
\* an error and nothing is sent after it. The run succeeds only with all
\* chunks sent and 0x5A read each time. JumpDA into DA1 came before.
C17_Da2Handshake ==
    LET n == bcfg.da2len
        total == 4 + 2 * ChunksOf(n) + 1
    IN  /\ Len(Da2Seg) <= total
        /\ Len(Da2Seg) > 0 =>
              \E j \in 1..Len(blog) : blog[j].step = "jump_da" /\ blog[j].ok
                                        /\ blog[j].addr = da_sram_addr
        /\ (bcfg.command = "DA" /\ bres.ok /\ bpc = "done") => Len(Da2Seg) = total
        /\ \A k \in 1..Len(Da2Seg) :
              LET e == Da2Seg[k] IN
              /\ k < Len(Da2Seg) => e.ok
              /\ e.ok => (e.step = "read_u8" => e.args = <<90>>)
              /\ (e.step = "read_u8" /\ e.args # <<90>>) =>
                    /\ k = Len(Da2Seg)
                    /\ ~bres.ok
                    /\ bpc = "done"
              /\ k = 1 => e.step = "write_u32_be" /\ e.args = <<128, 0, 0, 0>>
              /\ k = 2 => e.step = "write_u32_be"
                            /\ e.args = <<0, n \div 65536, (n \div 256) % 256, n % 256>>
              /\ k = 3 => e.step = "write_u32_be" /\ e.args = <<0, 0, 16, 0>>
              /\ (k >= 4 /\ k % 2 = 0) => e.step = "read_u8"
              /\ k = total => e.step = "read_u8"
              /\ (k >= 5 /\ k % 2 = 1 /\ k < total) =>
                    LET c == (k - 5) \div 2
                    IN  /\ e.step = "write_all"
                        /\ e.args = <<c * 4096, Min((c + 1) * 4096, n)>>

\* An image of two whole chunks and a partial one was sent and DA2 started.
C17_Witness ==
    /\ bcfg.command = "DA"
    /\ bcfg.da2len = 2 * 4096 + 100
    /\ bres.ok /\ bpc = "done"
    /\ Len(Da2Seg) = 11
    /\ Da2Seg[9].args = <<8192, 8292>>

----------------------------------------------------------------------------
(* Legacy commands *)

\* What SendDA's run does on the port, step by step.
SendDASteps ==
    << [dir |-> "tx", field |-> "command"],     [dir |-> "rx", field |-> "command"],
       [dir |-> "tx", field |-> "addr"],        [dir |-> "rx", field |-> "addr"],
       [dir |-> "tx", field |-> "payload_len"], [dir |-> "rx", field |-> "payload_len"],
       [dir |-> "tx", field |-> "da_sig_len"],  [dir |-> "rx", field |-> "da_sig_len"],
       [dir |-> "rx", field |-> "zero_status"],
       [dir |-> "tx", field |-> "payload"],
       [dir |-> "rx", field |-> "checksum"],
       [dir |-> "rx", field |-> "status"] >>
\* The value SendDA sends for a field.
SendDASent(f) == IF f = "command" THEN 215 ELSE lself[f]
\* Step k went well: the port call succeeded, an echo gave the value sent
\* and a status was 0.
SendDAGood(k) ==
    /\ llog[k].ok
    /\ (llog[k].dir = "rx" /\ llog[k].field \in {"command", "addr", "payload_len", "da_sig_len"})
          => llog[k].val = SendDASent(llog[k].field)
    /\ llog[k].field \in {"zero_status", "status"} => llog[k].val = 0
\* The error a step that did not go well ends the run with.
SendDAError(k) ==
    IF ~llog[k].ok THEN LegIo
    ELSE IF llog[k].field \in {"zero_status", "status"} THEN InvalidStatus(0, llog[k].val)
    ELSE InvalidEchoData(SendDASent(llog[k].field), llog[k].val)
\* Position of a field in the declaration of the structure, 0 for the command byte.
DeclIndex(f) ==
    IF f = "command" THEN 0
    ELSE CHOOSE i \in 1..Len(lcmd.fields) : lcmd.fields[i].name = f

\* C18: run() goes through the fields in the order of their declaration. For
\* SendDA the port sees: 0xD7 written and read back, addr, payload_len and
\* da_sig_len each written and read back, a status read, the payload written,
\* a checksum read, a status read. Every step happens only after all steps
\* before it went well; the first echo that differs ends the run with
\* InvalidEchoData, the first status that is not 0 with InvalidStatus, the
\* first transport error with that error; the run is Ok only after all
\* twelve steps; the payload is written only after the first status read 0.
C18_SendDAOrder ==
    /\ \A j, k \in 1..Len(llog) :
          j < k => DeclIndex(llog[j].field) <= DeclIndex(llog[k].field)
    /\ lcmd.name = "SendDA" =>
          /\ Len(llog) <= Len(SendDASteps)
          /\ \A k \in 1..Len(llog) :
                /\ llog[k].dir = SendDASteps[k].dir
                /\ llog[k].field = SendDASteps[k].field
                /\ llog[k].dir = "tx" => llog[k].val = SendDASent(llog[k].field)
                /\ k < Len(llog) => SendDAGood(k)
                /\ llog[k].field = "payload" =>
                      \E j \in 1..(k - 1) : /\ llog[j].field = "zero_status"
                                            /\ llog[j].ok /\ llog[j].val = 0
          /\ (Len(llog) > 0 /\ ~SendDAGood(Len(llog))) => lres = SendDAError(Len(llog))
          /\ (Len(llog) = 0 \/ SendDAGood(Len(llog))) =>
                lres = IF Len(llog) = Len(SendDASteps) THEN LegOk ELSE LegRunning

\* A SendDA with a payload ran to its end.
C18_Witness ==
    /\ lcmd.name = "SendDA"
    /\ lself.payload # <<>>
    /\ lres = LegOk
    /\ Len(llog) = 12

----------------------------------------------------------------------------
(* The patcher *)

\* C19: every application of a patch either returns Ok, having written the
\* replacement to a range inside the buffer and nothing else, the length
\* kept, or returns an error and leaves the buffer as it was; also when the
\* match is near the start or the end of the buffer.
C19_PatchWritesOrFails ==
    \A i \in 1..Len(phist) :
        LET before == IF i = 1 THEN pinit ELSE phist[i - 1].buf
            after == phist[i].buf
        IN  \/ /\ phist[i].res.k = "Err"
               /\ after = before
            \/ /\ phist[i].res.k = "Ok"
               /\ Len(after) = Len(before)
               /\ \E at \in 0..(Len(before) - Len(ppatch.replacement)) :
                     /\ \A j \in 1..Len(before) :
                           after[j] = IF j > at /\ j <= at + Len(ppatch.replacement)
                                      THEN ppatch.replacement[j - at] ELSE before[j]

\* C20: the buffer after the second application of a patch is the buffer
\* after the first one.
C20_PatchTwiceIsOnce ==
    Len(phist) >= 2 => phist[2].buf = phist[1].buf

----------------------------------------------------------------------------
(* Fuzzy search *)

\* The instructions of the buffer in their order: the items at which the
\* disassembler gives one.
RECURSIVE DecodedFrom(_)
DecodedFrom(i) ==
    IF i > Len(fcode) THEN <<>>
    ELSE IF fcode[i].m = "bad" THEN DecodedFrom(i + 1)
    ELSE <<i>> \o DecodedFrom(i + 1)
Decoded == DecodedFrom(1)

\* The instructions at which a run of consecutive instructions begins that
\* matches the templates one by one.
FuzzyRuns ==
    {k \in 1..(Len(Decoded) - Len(fpat) + 1) :
        \A j \in 1..Len(fpat) : Matches(fcode[Decoded[k + j - 1]], fpat[j])}

\* C21: the search succeeds exactly if some run of consecutive instructions
\* matches the templates position by position, and then returns the bytes
\* from the start of the first instruction to the end of the last one of the
\* earliest such run; otherwise it fails with PatternNotFound.
C21_FuzzyFindsEarliestRun ==
    fres # FuzzyRunning =>
        IF FuzzyRuns = {} THEN fres = FuzzyErr
        ELSE LET k == CHOOSE r \in FuzzyRuns : \A q \in FuzzyRuns : r <= q
                 first == Decoded[k]
                 fin == Decoded[k + Len(fpat) - 1]
             IN  fres = FuzzyOk(OffsetOf(fcode, first), OffsetOf(fcode, fin) + fcode[fin].size)

Init == RpcInit /\ FrameIdle /\ HookIdle /\ flushes = <<>> /\ BootIdle /\ LegacyIdle /\ PatchIdle /\ ToolIdle

Next == RpcNext /\ UNCHANGED <<frameVars, hookVars, bootVars, legacyVars, patchVars, toolVars>>

Spec == Init /\ [][Next]_vars

\* The framing alone: one peer writes frames, the other reads them.
InitFrame == RpcInit /\ FrameIdle /\ HookIdle /\ flushes = <<>> /\ BootIdle /\ LegacyIdle /\ PatchIdle /\ ToolIdle
SpecFrame == InitFrame /\ [][FrameNext]_vars

\* The device loop fed with bytes.
InitDev == DevInit /\ FrameIdle /\ HookIdle /\ flushes = <<>> /\ BootIdle /\ LegacyIdle /\ PatchIdle /\ ToolIdle
SpecDev == InitDev /\ [][DevNext]_vars

\* The interceptor on its own.
InitHook == RpcInit /\ FrameIdle /\ HookInit /\ flushes = <<>> /\ BootIdle /\ LegacyIdle /\ PatchIdle /\ ToolIdle
SpecHook == InitHook /\ [][HookNext]_vars

\* The host's boot flows.
InitBoot == RpcInit /\ FrameIdle /\ HookIdle /\ flushes = <<>> /\ BootInit /\ LegacyIdle /\ PatchIdle /\ ToolIdle
SpecBoot == InitBoot /\ [][BootNext]_vars

\* One legacy command run against a port.
InitLegacy == RpcInit /\ FrameIdle /\ HookIdle /\ flushes = <<>> /\ BootIdle /\ LegacyInit /\ PatchIdle /\ ToolIdle
SpecLegacy == InitLegacy /\ [][LegacyNext]_vars

\* A patch applied to a buffer, and applied again.
InitPatch == RpcInit /\ FrameIdle /\ HookIdle /\ flushes = <<>> /\ BootIdle /\ LegacyIdle /\ PatchInit /\ ToolIdle
SpecPatch == InitPatch /\ [][PatchNext]_vars

\* One fuzzy search over a buffer.
InitFuzzy == RpcInit /\ FrameIdle /\ HookIdle /\ flushes = <<>> /\ BootIdle /\ LegacyIdle /\ PatchIdle /\ FuzzyInit /\ AnaIdle /\ DaIdle /\ ShakeIdle
SpecFuzzy == InitFuzzy /\ [][FuzzyNext]_vars

----------------------------------------------------------------------------
(* The analyzer's result *)

\* The indices of the block b, both ends included.
BlockIdx(b) == b.start..b.end
\* The prologues inside the block b.
ProloguesIn(b) == {j \in BlockIdx(b) : j < Len(acode) /\ is_prologue(At(j))}

\* C22: the blocks of a function the analyzer reports are in increasing order
\* of start index, no two start at the same index, each starts no later than
\* it ends, and the only prologue inside a block is the one the first block
\* starts with.
C22_BlocksSortedAndWithinFunction ==
    ares.k = "Ok" =>
        /\ \A k \in 1..(Len(ares.blocks) - 1) :
               ares.blocks[k].start < ares.blocks[k + 1].start
        /\ \A k \in 1..Len(ares.blocks) :
               /\ ares.blocks[k].start <= ares.blocks[k].end
               /\ ProloguesIn(ares.blocks[k]) \subseteq
                      (IF k = 1 THEN {ares.blocks[1].start} ELSE {})

\* The start indices of the blocks returned.
BlockStarts == {ares.blocks[k].start : k \in 1..Len(ares.blocks)}
\* The conditional branches and CBZ/CBNZ that were processed.
ConditionalSeen == {j \in ares.seen : At(j).cond # "AL" \/ At(j).op = "cbz"}

\* C27: when a function is reported, the target of every conditional branch
\* or CBZ/CBNZ that was processed, and the index after the branch, are starts
\* of returned blocks.
C27_BothSuccessorsAreBlocks ==
    ares.k = "Ok" =>
        \A j \in ConditionalSeen : At(j).target[1] \in BlockStarts /\ j + 1 \in BlockStarts

\* C28: the index ranges of the blocks returned, both ends included, are
\* pairwise disjoint.
C28_BlocksDisjoint ==
    ares.k = "Ok" =>
        \A k, l \in 1..Len(ares.blocks) :
            k # l => BlockIdx(ares.blocks[k]) \cap BlockIdx(ares.blocks[l]) = {}

\* C29: analyze_function returns blocks or an error for every buffer and
\* start index; no assertion fails and no slice index is out of range.
C29_AnalyzeNeverPanics == ares.k # "panic"

----------------------------------------------------------------------------
(* The DA parser's result *)

----------------------------------------------------------------------------
(* Routines the device has to find *)

\* The requests whose handler searches a routine in memory: bldr_jump for
\* Jump in the preloader, usbdl_handler for Return in the preloader,
\* mt_part_generic_read for the hook.
NeedsRoutine(m) ==
    \/ m.k = "Hook"
    \/ m.k \in {"Jump", "Return"} /\ ~inBrom

\* C25: a pass of the device loop on a request that needs a routine does not
\* end the loop without a response: the routine is called, or the request is
\* answered (with Nack(NotFound(..)) if the routine is not there) and the
\* device goes on serving.
C25_MissingRoutineIsAnswered ==
    [][(dpc = "loop" /\ h2d # <<>> /\ NeedsRoutine(Head(h2d)) /\ taken' = taken + 1)
          => dpc' # "halted"]_vars

----------------------------------------------------------------------------
(* What revert writes *)

\* The bytes replace moved from the call site t to its trampoline (n_target):
\* the trampoline jumps back to (target + n_target) | 1 with target = t + 1.
DisplacedAt(t) ==
    LET i == Position(pool_address, t)
    IN  IF i = 0 THEN 0 ELSE pool_trampoline[i].jump_address - 1 - t

\* C26: a revert of T that succeeds changes no byte below T' and no byte at
\* or above T' + d, where d is the number of bytes displaced when T was
\* installed.
C26_RevertWritesOnlyDisplaced ==
    [][(hops' = hops + 1 /\ hlast'.op = "revert" /\ hlast'.ok) =>
          LET t == unmask_thumb2(hlast'.target)
          IN  \A x \in DOMAIN mem :
                  (x < t \/ x >= t + DisplacedAt(t)) => mem'[x] = mem[x]]_vars

----------------------------------------------------------------------------
(* The pool under hook requests *)

\* C30: the pool is written by init() once, before the first hook is
\* installed: a hook request leaves every call site that is recorded in the
\* pool recorded.
C30_HooksStayRecorded ==
    [][\A i \in 1..Len(pool_address) :
          \E j \in 1..Len(pool_address') :
              /\ pool_address'[j] = pool_address[i]
              /\ pool_trampoline'[j] = pool_trampoline[i]]_vars

----------------------------------------------------------------------------
(* What a read depends on *)

\* The buffer of a reader that has read one frame written by write_data.
BufAfter(typ, v) == Overlay(ZeroBuf, Encode(typ, v))
EarlierBufs ==
    {BufAfter("Message", v) : v \in {m \in FrameMessages : Len(EncMessage(m)) <= BufSize}}
      \cup {BufAfter("Response", v) : v \in FrameResponses}

\* C31: what the second read_data of a reader returns is what any reader
\* returns for the same frame, whichever frame it has read before.
C31_ReadDependsOnFrameOnly ==
    \A i \in 2..Len(rlog) : \A b \in EarlierBufs :
        LET d == Decode(rlog[i].typ, Overlay(b, rlog[i].body))
        IN  d.ok = rlog[i].ok /\ (d.ok => d.v = rlog[i].v)

\* C32: the entry assertions of the stages hold in every state of the
\* orchestrator: the BootROM flow is only entered with the device enumerated
\* in BootROM mode and the Preloader flow only in Preloader mode, whatever
\* mode the device re-enumerates in after the crash to BootROM or after the
\* jump to the patched preloader; no run ends in a failed assertion.
C32_EntryAssertionsHold == bres # BErr("panic")

\* C33: in the DA flow with skip-patch set no patch is applied to DA1 or to
\* DA2 on any path, whichever exploit is selected: the DA1 image SendDA sends
\* and the DA2 image sent afterwards are the bytes of the regions of the file.
C33_SkipPatchSendsFileBytes ==
    (bcfg.command = "DA" /\ bcfg.skip_patch) =>
        \A i \in 1..Len(blog) :
            /\ blog[i].step # "patch"
            /\ blog[i].step \in {"send_da", "da2"} => blog[i].args = <<"file">>

\* C34: the crash to BootROM succeeds exactly when Read32(0, 1) ends with an
\* I/O error of the transport. When the read completes or fails with any
\* other error the step fails with "Retry" and the orchestrator neither
\* drops the port nor re-enumerates nor enters the BootROM flow: the failed
\* step is the last one of the run.
C34_CrashNeedsIoError ==
    \A i \in 1..Len(blog) :
        blog[i].step = "crash_to_brom" =>
            /\ blog[i].ok <=> blog[i].args = <<"Io">>
            /\ blog[i].ok => (i < Len(blog) /\ blog[i + 1].step = "close_port")
            /\ ~blog[i].ok => (i = Len(blog) /\ bpc = "done" /\ bres = BErr("Retry"))

\* Read32 completed normally and the run ended with "Retry".
C34_Witness ==
    /\ Len(blog) > 0
    /\ blog[Len(blog)].step = "crash_to_brom"
    /\ blog[Len(blog)].args = <<"Ok">>
    /\ bres = BErr("Retry")

\* The steps of the log with the given name.
StepsNamed(step) == {i \in 1..Len(blog) : blog[i].step = step}
\* The entries of the BootROM flow: its first step.
BromEntries ==
    {i \in StepsNamed("run_payload") : blog[i].addr = BROM_PAYLOAD_ADDR}

\* C35: in one session the crash to BootROM is run at most once and the
\* BootROM flow is entered at most once. Once BootROM has handed over to the
\* preloader the request to crash is cleared, so the preloader flow that
\* follows goes on with the boot or the DA command and the recursion ends.
C35_CrashAndBromAtMostOnce ==
    /\ Cardinality(StepsNamed("crash_to_brom")) <= 1
    /\ Cardinality(BromEntries) <= 1
    /\ \A i \in BromEntries :
          /\ \A j \in StepsNamed("crash_to_brom") : j < i
          /\ \A j \in StepsNamed("jump_response") :
                (j > i /\ j < i + 6 /\ blog[j].ok) => ~bcrash
          /\ \A j \in StepsNamed("workaround") :
                (j > i /\ j < Len(blog) /\ blog[j].ok) =>
                    blog[j + 1].step \in {"run_payload", "load_da"}

\* A session that crashed to BootROM, ran the BootROM flow and is back in the
\* preloader flow, past the test of the request to crash.
C35_Witness ==
    /\ StepsNamed("crash_to_brom") # {}
    /\ \E i \in BromEntries : \E j \in StepsNamed("workaround") : j > i /\ j < Len(blog)

\* The reads of the answer to 0xa0: those that follow the flush.
SyncReadAt(i) == i > 1 /\ klog[i].op = "read" /\ klog[i - 1].op = "flush"
\* The device answered 0x5f before the call i.
SyncedBefore(i) ==
    \E j \in 1..(i - 1) : SyncReadAt(j) /\ klog[j].ok /\ klog[j].b = SYNC_REPLY
\* The bytes written after the device answered 0x5f.
FixedWrites ==
    LET F[i \in 0..Len(klog)] ==
            IF i = 0 THEN <<>>
            ELSE IF klog[i].op = "write" /\ SyncedBefore(i)
                   THEN Append(F[i - 1], klog[i].b) ELSE F[i - 1]
    IN  F[Len(klog)]

\* The order of the calls of handshake() on the port.
HandshakeOrder ==
    /\ \A i \in 1..Len(klog) :
          /\ (klog[i].op = "write" /\ ~SyncedBefore(i)) =>
                /\ klog[i].b = SYNC
                /\ i = 1 \/ (SyncReadAt(i - 1) /\ klog[i - 1].ok)
          /\ (klog[i].op = "write" /\ SyncedBefore(i)) =>
                klog[i - 1].op = "read" /\ klog[i - 1].ok
          /\ (SyncReadAt(i) /\ klog[i].ok /\ klog[i].b # SYNC_REPLY /\ i < Len(klog)) =>
                klog[i + 1].op = "write" /\ klog[i + 1].b = SYNC
          /\ klog[i].op = "clear" =>
                /\ i = Len(klog)
                /\ FixedWrites = HANDSHAKE
                /\ klog[i - 1].op = "read" /\ klog[i - 1].ok
    /\ Len(FixedWrites) <= Len(HANDSHAKE)
    /\ FixedWrites = SubSeq(HANDSHAKE, 1, Len(FixedWrites))
    /\ kres = KOk <=> (klog # <<>> /\ klog[Len(klog)] = KEv("clear", 0))
    /\ (kpc = "done" /\ \A i \in 1..Len(klog) : klog[i].ok) => kres = KOk

\* C36: the handshake sends 0xa0 until the device answers 0x5f, sends 0x0a,
\* 0x50 and 0x05 only after the 0x5f, in this order and each only after the
\* answer to the one before was read, and then drains the port; with a device
\* that answers 0x5f at some point and answers each of the three bytes the
\* handshake ends, and it ends with Ok when no call on the port failed.
C36_Handshake == [](HandshakeOrder) /\ <>(kpc = "done")

\* The device answered something else first, then 0x5f and the three bytes.
C36_Witness == kres = KOk /\ kwrong > 0

\* The steps of the flush f, a call flush_cache(f.addr, f.size), are in
\* order: the data-cache operations on the lines from the one of addr
\* upwards, DSB, ICIALLU, BPIALL, DSB, ISB.
FlushOrdered(f) ==
    LET ops == flush_cache_ops(f.addr, f.size)
        n == Len(ops) - 5
    IN  /\ n >= 0
        /\ \A k \in 1..n :
              ops[k] = MaintOp("DCCIMVAC", LineOf(f.addr) + CACHE_LINE * (k - 1))
        /\ SubSeq(ops, n + 1, n + 5) =
              <<MaintOp("DSB", 0), MaintOp("ICIALLU", 0), MaintOp("BPIALL", 0),
                MaintOp("DSB", 0), MaintOp("ISB", 0)>>

\* The request the device loop reads next.
DevHandles ==
    LET r == ReadData(rbuf, wire, "Message")
    IN  IF r.ok /\ ~r.panic THEN r.v ELSE BadFrame

\* One operation that modifies code and what it flushed by the time it returns.
FlushAfterWrite ==
    /\ \A i \in 1..Len(flushes') : FlushOrdered(flushes'[i])
    /\ mem' # mem => flushes' # <<>>
    /\ (hlast' # hlast /\ hlast'.op = "replace" /\ hlast'.ok) =>
          /\ Len(flushes') = 2
          /\ flushes'[1].addr = hlast'.code
          /\ flushes'[2].addr = hlast'.target
    /\ (hlast' # hlast /\ hlast'.op = "revert" /\ hlast'.ok) =>
          /\ Len(flushes') = 1
          /\ flushes'[1].addr = unmask_thumb2(hlast'.target)
    /\ (rlog' # rlog /\ dpc' = "loop" /\ DevHandles.k = "FlushCache") =>
          /\ Len(flushes') = 1
          /\ flushes'[1].addr = DevHandles.addr
          /\ flushes'[1].size = DevHandles.size

\* C37: every code modification is followed, before the operation that made
\* it returns, by a cache flush whose steps are in this order: the data-cache
\* line operations over the range, DSB, the instruction-cache invalidate, the
\* branch-predictor invalidate, DSB, ISB.  This holds for the trampoline
\* write and the hook-site write of replace, for revert, and for the device's
\* handling of FlushCache.
C37_FlushFollowsWrite == [][FlushAfterWrite]_vars

\* replace has written a trampoline and a hook site and flushed both.
C37_Witness == hlast.op = "replace" /\ hlast.ok /\ Len(flushes) = 2

\* The loop of the patch driver is over: its last pass is made, or a patch
\* has panicked.
DriverDone ==
    \/ Len(phist) = Len(CatalogOf(ppatch))
    \/ \E k \in 1..Len(phist) : phist[k].res = PatchPanic

\* C38: the patch driver attempts every patch of the catalog once, in catalog
\* order, whatever the outcome of the patches before: a patch that fails
\* neither stops the patches after it, nor undoes what the patches before it
\* wrote, nor aborts the flow around the driver.
C38_EveryPatchAttempted ==
    /\ \A k \in 1..Len(phist) :
          /\ phist[k].res # PatchPanic
          /\ phist[k].res # PatchOk =>
                phist[k].buf = IF k = 1 THEN pinit ELSE phist[k - 1].buf
    /\ DriverDone => Len(phist) = Len(CatalogOf(ppatch))

\* The field of the command at hand with the given name.
FieldNamed(name) ==
    IF name = "command" THEN CommandField
    ELSE LET i == CHOOSE i \in 1..Len(lcmd.fields) : lcmd.fields[i].name = name
         IN  lcmd.fields[i]

\* C39: for every status field a legacy command receives, whatever the width
\* of the field, the run fails with InvalidStatus if and only if the value
\* received differs from the expected one; DA1Setup succeeds only when the
\* 32-bit DRAM status it reads is exactly 0.
C39_StatusComparesWholeValue ==
    \A i \in 1..Len(llog) :
        LET e == llog[i]
            f == FieldNamed(e.field)
        IN  (e.dir = "rx" /\ e.ok /\ f.status # <<>>) =>
                ((i = Len(llog) /\ lres.k = "InvalidStatus") <=> e.val # f.status[1])

\* C40: after every successful install the bytes overwritten at the hook
\* site, the leading NOP if there is one and the 8 bytes of the jump-out, lie
\* within the bytes that were moved to the trampoline; the trampoline jumps
\* back to T' plus the number of bytes moved; and what is written to the
\* trampoline, its jump-out included, stays within the 64 bytes allocated.
C40_InstallStaysInBounds ==
    (hlast.op = "replace" /\ hlast.ok) =>
        LET T1 == unmask_thumb2(hlast.target)
            written == (IF T1 % 4 # 0 THEN 2 ELSE 0) + 8
        IN  /\ written <= hlast.n_target
            /\ \A k \in 0..15 :
                  Byte(mem, T1 + k) # pre[T1][k + 1] => k < written
            /\ unmask_thumb2(hlast.jump_address) = T1 + hlast.n_target
            /\ \E k \in 0..14 :
                  /\ Rd32(mem, hlast.code + 4 * k) = JUMP
                  /\ Rd32(mem, hlast.code + 4 * k + 4) = Addr32(hlast.jump_address)
            /\ \A x \in MemDom : x >= hlast.code + 64 => mem[x] = 0

\* An install at the call site that is 2 bytes off a 4-byte boundary, with a
\* 32-bit instruction across the end of the bytes to move.
C40_Witness ==
    /\ hlast.op = "replace" /\ hlast.ok
    /\ unmask_thumb2(hlast.target) % 4 = 2
    /\ hlast.n_target = 12

\* The payload serves hook requests.
InitLkHook == RpcInit /\ FrameIdle /\ LkHookInit /\ flushes = <<>> /\ BootIdle /\ LegacyIdle /\ PatchIdle /\ ToolIdle
SpecLkHook == InitLkHook /\ [][LkHookNext]_vars

\* The code that modifies code: the interceptor driven call by call over the
\* two call sites of LK, or the device loop fed with frames.
CodeFrames ==
    {[hdr |-> U32ToBE(Len(EncMessage(m))), body |-> EncMessage(m)] :
        m \in {MsgFlushCache(0, 64), MsgFlushCache(70, 100), MsgFlushCache(64, 0),
               MsgWrite(1, <<7, 9>>), MsgAck}}
InitCode == Init \/ InitDev
CodeNext ==
    \/ hpc = "start" /\ HookNext
    \/ hpc = "pick" /\ ((\E f \in CodeFrames : DevInject(f)) \/ DevLoop)
SpecCode == InitCode /\ [][CodeNext]_vars

\* Installs of the interceptor, one after the other.
InitInstall == RpcInit /\ FrameIdle /\ InstallInit /\ flushes = <<>> /\ BootIdle /\ LegacyIdle /\ PatchIdle /\ ToolIdle
SpecInstall == InitInstall /\ [][InstallNext]_vars

\* The patch driver on an image.
InitDriver == RpcInit /\ FrameIdle /\ HookIdle /\ flushes = <<>> /\ BootIdle /\ LegacyIdle /\ DriverInit /\ ToolIdle
SpecDriver == InitDriver /\ [][DriverNext]_vars

\* One call of handshake().
InitShake == RpcInit /\ FrameIdle /\ HookIdle /\ flushes = <<>> /\ BootIdle /\ LegacyIdle /\ PatchIdle /\ FuzzyIdle /\ AnaIdle /\ DaIdle /\ ShakeInit
SpecShake == InitShake /\ [][ShakeNext]_vars
\* handshake() runs on: a call that can be made is made.
SpecShakeLive == SpecShake /\ WF_vars(ShakeNext)

\* One call of analyze_function.
InitAna == RpcInit /\ FrameIdle /\ HookIdle /\ flushes = <<>> /\ BootIdle /\ LegacyIdle /\ PatchIdle /\ FuzzyIdle /\ AnaInit /\ DaIdle /\ ShakeIdle
SpecAna == InitAna /\ [][AnaNext]_vars

\* A DA file is parsed and its regions are read.
InitDa == RpcInit /\ FrameIdle /\ HookIdle /\ flushes = <<>> /\ BootIdle /\ LegacyIdle /\ PatchIdle /\ FuzzyIdle /\ AnaIdle /\ DaInit /\ ShakeIdle
SpecDa == InitDa /\ [][DaNext]_vars

====
